---- MODULE Spec2Model ----
(***************************************************************************)
(* Model of the statlab analysis service (backend/services/analysis.py).   *)
(*                                                                         *)
(* Every analysis function is a pure, synchronous computation over the     *)
(* table it is handed, so the state machine is: no call made yet (Init),   *)
(* then one action per analysis function, which draws a table and the      *)
(* column names from bounded sets, runs the function and leaves the        *)
(* caller's table, the call and its outcome in the state.                  *)
(*                                                                         *)
(* Representation.                                                         *)
(*  - A cell is a JSON scalar: a number, a string or null.  Strings are    *)
(*    sequences of one-character tokens so that str.strip / str.lower      *)
(*    are computed, not assumed.                                           *)
(*  - A table is written run-length encoded: a sequence of runs, each a    *)
(*    record `row` with a repeat count `rep` standing for `rep`            *)
(*    consecutive identical records.  Counts are sums of `rep`, so the     *)
(*    3-observation minimum and the 5000-observation Shapiro guard are     *)
(*    both reachable with a handful of runs.                               *)
(*  - A float is [t, v]: t = "fin" with an integer payload (scaled where   *)
(*    stated), or "nan", "inf", "-inf", or "none" for Python's None.       *)
(*  - p-values are integers in units of 1e-5; values rounded to 4          *)
(*    decimals are integers in units of 1e-4.                              *)
(*  - The outputs of scipy's tests (p-values, convergence of curve_fit)    *)
(*    are inputs of the actions, drawn from small sets.                    *)
(***************************************************************************)
EXTENDS Integers, Sequences, FiniteSets, TLC

VARIABLES
    data,    \* the caller's table
    call,    \* the function called last, its arguments and scipy's outputs
    result,  \* what the call returned or raised
    pc,      \* "idle", "fitting" (inside curve_fit) or "returned"
    nfev,    \* the model evaluations curve_fit has made
    store,   \* Redis: session id -> the stored text and the time it expires
    now,     \* the clock, in seconds
    issued,  \* history: what each create_session call was given, and when
    shown    \* the suggestions the client was last given, and for which columns

vars == <<data, call, result, pc, nfev, store, now, issued, shown>>

(***************************************************************************)
(* Bounds of the model and constants of the program.                       *)
(***************************************************************************)
MaxRuns == 3
MaxAnovaRuns == 4
BigRep == 5001
MaxSurvivalRep == 2
MaxColumnRep == 2
MaxPairRep == 2
MaxFitRuns == 1
MaxSharedRuns == 2
MaxSessions == 1
MaxLifetimes == 1
MaxUploadRuns == 1
MaxSuggestRuns == 3
MaxEventRuns == 2

MinObs == 3
ShapiroMax == 5000
Alpha5 == 5000
NormalP5 == 5000
TinyP5 == 10
MinPoints == 4
LowExpectedCount == 5
CurvePoints == 200
DataXDecimals == 6
MaxFev == 10000
SESSION_TTL == 7200
PreviewRows == 5
SuggestMinN == 5
ConstantChecked == 4
CorrelationRows == 10
RegressionRows == 20
ManyValues == 15
Decades == 100
DoseRows == 8
DataYDecimals == 4

(***************************************************************************)
(* Cells, floats and small arithmetic.                                     *)
(***************************************************************************)
Num(n) == [k |-> "num", n |-> n, s |-> <<>>]
Str(s) == [k |-> "str", n |-> 0, s |-> s]
Null == [k |-> "null", n |-> 0, s |-> <<>>]
\* the number n * 1e-7, a concentration below the sixth decimal
Dec(n) == [k |-> "dec", n |-> n, s |-> <<>>]

Fin(v) == [t |-> "fin", v |-> v]
NaN == [t |-> "nan", v |-> 0]
PosInf == [t |-> "inf", v |-> 0]
NegInf == [t |-> "-inf", v |-> 0]
None == [t |-> "none", v |-> 0]

IsFinite(f) == f.t = "fin"
NotANumber(f) == f.t \in {"nan", "inf", "-inf"}

Sign(n) == IF n > 0 THEN 1 ELSE IF n < 0 THEN 0 - 1 ELSE 0

\* round(p / q) to the nearest integer, ties to the even one (Python's round), q > 0
RoundHalfEven(p, q) ==
    LET f == p \div q
        r == p - f * q
    IN  IF 2 * r < q THEN f
        ELSE IF 2 * r > q THEN f + 1
        ELSE IF f % 2 = 0 THEN f ELSE f + 1

\* round(p / q, 4) in units of 1e-4
Round4(p, q) == RoundHalfEven(p * 10000, q)

Digits == {"0", "1", "2", "3", "4", "5", "6", "7", "8", "9"}

DigitVal(c) ==
    CASE c = "0" -> 0 [] c = "1" -> 1 [] c = "2" -> 2 [] c = "3" -> 3
      [] c = "4" -> 4 [] c = "5" -> 5 [] c = "6" -> 6 [] c = "7" -> 7
      [] c = "8" -> 8 [] OTHER -> 9

\* pd.to_numeric(errors="coerce") of one cell: a whole number, a string of one
\* digit, else NaN (the decimal cells are coerced by to_fixed)
to_numeric(c) ==
    CASE c.k = "num" -> Fin(c.n)
      [] c.k = "str" -> IF Len(c.s) = 1 /\ c.s[1] \in Digits
                        THEN Fin(DigitVal(c.s[1])) ELSE NaN
      [] c.k = "null" -> NaN

(***************************************************************************)
(* str.strip() and str.lower() on a string of character tokens.            *)
(***************************************************************************)
LowerChar(c) ==
    CASE c = "A" -> "a" [] c = "B" -> "b" [] c = "C" -> "c" [] c = "T" -> "t"
      [] c = "R" -> "r" [] c = "U" -> "u" [] c = "E" -> "e" [] c = "F" -> "f"
      [] c = "L" -> "l" [] c = "S" -> "s" [] OTHER -> c

lower(s) == [i \in 1..Len(s) |-> LowerChar(s[i])]

RECURSIVE lstrip(_)
lstrip(s) == IF s # <<>> /\ Head(s) = " " THEN lstrip(Tail(s)) ELSE s

RECURSIVE rstrip(_)
rstrip(s) == IF s # <<>> /\ s[Len(s)] = " " THEN rstrip(SubSeq(s, 1, Len(s) - 1)) ELSE s

strip(s) == rstrip(lstrip(s))

(***************************************************************************)
(* pandas: DataFrame(data), columns, dtype, dropna().unique(), .str        *)
(***************************************************************************)
\* df.columns of pd.DataFrame(data): the keys of the records
Columns(d) == UNION {DOMAIN d[i].row : i \in 1..Len(d)}

Column(d, c) == [i \in 1..Len(d) |-> d[i].row[c]]

\* df[c].dtype == object: some string, or nothing but None
IsObjectDtype(d, c) ==
    \/ \E i \in 1..Len(d) : d[i].row[c].k = "str"
    \/ \A i \in 1..Len(d) : d[i].row[c].k = "null"

RECURSIVE UniqueFrom(_, _, _)
UniqueFrom(s, i, acc) ==
    IF i > Len(s) THEN acc
    ELSE IF s[i].k = "null" \/ \E j \in 1..Len(acc) : acc[j] = s[i]
         THEN UniqueFrom(s, i + 1, acc)
         ELSE UniqueFrom(s, i + 1, Append(acc, s[i]))

\* df[c].dropna().unique(): the distinct non-missing values, in order of first appearance
unique(d, c) == UniqueFrom(Column(d, c), 1, <<>>)

\* one cell of df[c].str.strip().str.lower(): a non-string becomes NaN (missing)
str_strip_lower(cell) == IF cell.k = "str" THEN Str(lower(strip(cell.s))) ELSE Null

\* df[group_col] = df[group_col].str.strip().str.lower(), on the call's own frame
NormaliseColumn(d, c) ==
    [i \in 1..Len(d) |->
        [row |-> [d[i].row EXCEPT ![c] = str_strip_lower(d[i].row[c])], rep |-> d[i].rep]]

\* the frame after the `if df[group_col].dtype == object` normalisation
NormalisedFrame(d, c) == IF IsObjectDtype(d, c) THEN NormaliseColumn(d, c) ELSE d

\* element of df[c] == g : a missing value equals nothing
CellEq(cell, g) == cell.k # "null" /\ cell = g

RECURSIVE SeriesFrom(_, _, _, _, _)
SeriesFrom(d, gc, g, vc, i) ==
    IF i > Len(d) THEN <<>>
    ELSE LET x == to_numeric(d[i].row[vc])
             rest == SeriesFrom(d, gc, g, vc, i + 1)
         IN  IF CellEq(d[i].row[gc], g) /\ IsFinite(x)
             THEN <<[v |-> x.v, rep |-> d[i].rep]>> \o rest
             ELSE rest

\* pd.to_numeric(df[df[gc] == g][vc], errors="coerce").dropna()
GroupSeries(d, gc, g, vc) == SeriesFrom(d, gc, g, vc, 1)

RECURSIVE SeriesLen(_)
SeriesLen(s) == IF s = <<>> THEN 0 ELSE Head(s).rep + SeriesLen(Tail(s))

RECURSIVE SeriesSum(_)
SeriesSum(s) == IF s = <<>> THEN 0 ELSE Head(s).v * Head(s).rep + SeriesSum(Tail(s))

\* series.mean(), rounded to 4 decimals; NaN on an empty series
SeriesMean4(s) ==
    IF SeriesLen(s) = 0 THEN NaN ELSE Fin(Round4(SeriesSum(s), SeriesLen(s)))

IsConstant(s) == \A i, j \in 1..Len(s) : s[i].v = s[j].v

\* the number of records of the runs I of a table or series
RECURSIVE Weight(_, _)
Weight(d, I) ==
    IF I = {} THEN 0
    ELSE LET i == CHOOSE x \in I : TRUE IN d[i].rep + Weight(d, I \ {i})

\* a raised ValueError, named by the kind of failure of the raise statement
Err(kind) == [ok |-> FALSE, kind |-> kind]

(***************************************************************************)
(* format_p and the comparison of a p-value with a threshold.              *)
(* A p-value is Fin(p5), p5 in units of 1e-5, or NaN.                      *)
(***************************************************************************)
\* p < x for floats: false when p is NaN
LessThan(p, x5) == p.t = "fin" /\ p.v < x5

\* round(float(p), 4), kept in units of 1e-5
RoundP(p) == IF p.t = "fin" THEN Fin(RoundHalfEven(p.v, 10) * 10) ELSE p

\* the display string: [lt |-> TRUE] is "<0.0001", else str(round(p, 4))
format_p(p) ==
    IF LessThan(p, TinyP5) THEN [lt |-> TRUE, shown |-> Fin(0)]
    ELSE [lt |-> FALSE, shown |-> RoundP(p)]

(***************************************************************************)
(* two_group_comparison                                                    *)
(***************************************************************************)
\* the nested normality(series): Shapiro-Wilk p-value sh (from scipy) and its label
normality(series, sh) ==
    IF SeriesLen(series) > ShapiroMax
    THEN [p |-> None, label |-> "Sample too large for Shapiro-Wilk (n > 5000)"]
    ELSE [p |-> RoundP(sh),
          label |-> IF sh.t = "fin" /\ sh.v > NormalP5 THEN "normal" ELSE "non-normal"]

RECURSIVE PairScore(_, _, _, _)
PairScore(a, b, i, j) ==
    IF i > Len(a) THEN 0
    ELSE IF j > Len(b) THEN PairScore(a, b, i + 1, 1)
    ELSE a[i].rep * b[j].rep
            * (IF a[i].v > b[j].v THEN 2 ELSE IF a[i].v = b[j].v THEN 1 ELSE 0)
         + PairScore(a, b, i, j + 1)

\* the smaller of U1 and U2, as mannwhitneyu reported before scipy 1.7
mannwhitneyu2_min(a, b) ==
    IF PairScore(a, b, 1, 1) <= PairScore(b, a, 1, 1)
    THEN PairScore(a, b, 1, 1) ELSE PairScore(b, a, 1, 1)

\* twice the U statistic mannwhitneyu reports for its first sample:
\* U = #(a > b) + #(a = b) / 2 over all pairs
mannwhitneyu2(a, b) == PairScore(a, b, 1, 1)

\* sign of mean(a) - mean(b)
MeanDiffSign(a, b) == Sign(SeriesSum(a) * SeriesLen(b) - SeriesSum(b) * SeriesLen(a))

\* the statistic of ttest_ind up to its magnitude: Fin(sign), or with a zero
\* pooled variance the IEEE quotient d / 0: +/-inf, or nan when d = 0 too
ttest_ind_stat(a, b) ==
    LET d == MeanDiffSign(a, b)
    IN  IF IsConstant(a) /\ IsConstant(b)
        THEN IF d > 0 THEN PosInf ELSE IF d < 0 THEN NegInf ELSE NaN
        ELSE Fin(d)

\* the p-value of ttest_ind: scipy's (tp), nan when the statistic is nan
ttest_ind_p(a, b, tp) == IF ttest_ind_stat(a, b).t = "nan" THEN NaN ELSE tp

GroupSummary(label, series, norm) ==
    [label |-> label, n |-> SeriesLen(series), mean |-> SeriesMean4(series),
     normality_p |-> norm.p, normality |-> norm.label]

\* Recommend with `or` for `and` in both_normal
Recommend_either(norm_a, norm_b, t_p, u_p) ==
    LET t_significant == LessThan(t_p, Alpha5)
        u_significant == LessThan(u_p, Alpha5)
        both_normal == norm_a.label = "normal" \/ norm_b.label = "normal"
        recommended == IF both_normal THEN "t-test" ELSE "Mann-Whitney U"
        significant == IF both_normal THEN t_significant ELSE u_significant
        recommended_p == IF both_normal THEN RoundP(t_p) ELSE RoundP(u_p)
    IN  [recommended_test |-> recommended,
         interpretation |->
            [significant |-> significant, p |-> format_p(recommended_p),
             test |-> recommended,
             why_t |-> significant /\ both_normal]]

\* lines 130-158: the recommended test and the interpretation sentence
Recommend(norm_a, norm_b, t_p, u_p) ==
    LET t_significant == LessThan(t_p, Alpha5)
        u_significant == LessThan(u_p, Alpha5)
        both_normal == norm_a.label = "normal" /\ norm_b.label = "normal"
        recommended == IF both_normal THEN "t-test" ELSE "Mann-Whitney U"
        significant == IF both_normal THEN t_significant ELSE u_significant
        recommended_p == IF both_normal THEN RoundP(t_p) ELSE RoundP(u_p)
    IN  [recommended_test |-> recommended,
         interpretation |->
            [significant |-> significant, p |-> format_p(recommended_p),
             test |-> recommended,
             why_t |-> significant /\ both_normal]]

two_group_comparison(d, group_col, value_col, env) ==
    IF group_col \notin Columns(d) \/ value_col \notin Columns(d)
    THEN Err("InvalidColumn")
    ELSE
    LET groups == unique(d, group_col)
    IN  IF Len(groups) # 2 THEN Err("InvalidGroupCount")
        ELSE
        LET df == NormalisedFrame(d, group_col)
            group_a == GroupSeries(df, group_col, groups[1], value_col)
            group_b == GroupSeries(df, group_col, groups[2], value_col)
        IN  IF SeriesLen(group_a) < MinObs \/ SeriesLen(group_b) < MinObs
            THEN Err("InsufficientData")
            ELSE
            LET norm_a == normality(group_a, env.sh_a)
                norm_b == normality(group_b, env.sh_b)
                t_p == ttest_ind_p(group_a, group_b, env.t_p)
                u_p == env.u_p
                rec == Recommend(norm_a, norm_b, t_p, u_p)
            IN  [ok |-> TRUE, kind |-> "ok",
                 group_column |-> group_col, value_column |-> value_col,
                 groups |-> <<GroupSummary(groups[1], group_a, norm_a),
                              GroupSummary(groups[2], group_b, norm_b)>>,
                 t_test |-> [statistic |-> ttest_ind_stat(group_a, group_b),
                             p_value |-> format_p(t_p),
                             significant |-> LessThan(t_p, Alpha5)],
                 mann_whitney |-> [statistic2 |-> Fin(mannwhitneyu2(group_a, group_b)),
                                   p_value |-> RoundP(u_p),
                                   significant |-> LessThan(u_p, Alpha5)],
                 recommended_test |-> rec.recommended_test,
                 interpretation |-> rec.interpretation]

(***************************************************************************)
(* one_way_anova                                                           *)
(***************************************************************************)
\* group_data: one entry per raw label, its series taken from the normalised frame
GroupData(df, groups, group_col, value_col) ==
    [i \in 1..Len(groups) |->
        [name |-> groups[i], series |-> GroupSeries(df, group_col, groups[i], value_col)]]

\* lines 229-235, skipped: the names whose series has fewer than 3 observations
SkippedGroups(group_data) ==
    SelectSeq([i \in 1..Len(group_data) |-> group_data[i]],
              LAMBDA e : SeriesLen(e.series) < MinObs)

\* lines 229-235, filtered: the entries that stay
FilteredGroups(group_data) ==
    SelectSeq([i \in 1..Len(group_data) |-> group_data[i]],
              LAMBDA e : ~(SeriesLen(e.series) < MinObs))

AllConstant(gd) == \A i \in 1..Len(gd) : IsConstant(gd[i].series)

AllIdentical(gd) ==
    \A i, j \in 1..Len(gd) :
        \A x \in 1..Len(gd[i].series), y \in 1..Len(gd[j].series) :
            gd[i].series[x].v = gd[j].series[y].v

\* f_oneway's statistic up to its magnitude: with every group constant scipy
\* reports inf, or nan when the groups also share their value
f_oneway_stat(gd) ==
    IF AllConstant(gd) THEN (IF AllIdentical(gd) THEN NaN ELSE PosInf) ELSE Fin(1)

f_oneway_p(gd, fp) ==
    IF AllConstant(gd) THEN (IF AllIdentical(gd) THEN NaN ELSE Fin(0)) ELSE fp

AnovaSummary(e) ==
    [name |-> e.name, n |-> SeriesLen(e.series), mean |-> SeriesMean4(e.series)]

one_way_anova(d, group_col, value_col, env) ==
    IF group_col \notin Columns(d) \/ value_col \notin Columns(d)
    THEN Err("InvalidColumn")
    ELSE
    LET groups == unique(d, group_col)
    IN  IF Len(groups) < MinObs THEN Err("InvalidGroupCount")
        ELSE
        LET df == NormalisedFrame(d, group_col)
            all_groups == GroupData(df, groups, group_col, value_col)
            skipped == [i \in 1..Len(SkippedGroups(all_groups)) |->
                            SkippedGroups(all_groups)[i].name]
            group_data == FilteredGroups(all_groups)
        IN  IF Len(group_data) < MinObs
            THEN [ok |-> FALSE, kind |-> "TooFewValidGroups", skipped |-> skipped]
            ELSE IF AllIdentical(group_data) /\ env.kruskal_raises
            THEN Err("KruskalIdentical")
            ELSE
            LET f_p == f_oneway_p(group_data, env.f_p)
                k_p == IF AllIdentical(group_data) THEN NaN ELSE env.k_p
                f_significant == LessThan(f_p, Alpha5)
            IN  [ok |-> TRUE, kind |-> "ok",
                 group_column |-> group_col, value_column |-> value_col,
                 n_groups |-> Len(group_data),
                 skipped_groups |-> skipped,
                 groups |-> [i \in 1..Len(group_data) |-> AnovaSummary(group_data[i])],
                 anova |-> [f_statistic |-> f_oneway_stat(group_data),
                            p_value |-> format_p(f_p),
                            significant |-> f_significant],
                 kruskal_wallis |-> [h_statistic |-> IF AllIdentical(group_data)
                                                      THEN NaN ELSE Fin(1),
                                     p_value |-> format_p(k_p),
                                     significant |-> LessThan(k_p, Alpha5)],
                 interpretation |-> [significant |-> f_significant,
                                     p |-> format_p(f_p),
                                     post_hoc |-> f_significant]]


(***************************************************************************)
(* kaplan_meier                                                            *)
(***************************************************************************)
RECURSIVE PairedFrom(_, _, _, _)
PairedFrom(d, a, b, i) ==
    IF i > Len(d) THEN <<>>
    ELSE LET x == to_numeric(d[i].row[a])
             y == to_numeric(d[i].row[b])
             rest == PairedFrom(d, a, b, i + 1)
         IN  IF IsFinite(x) /\ IsFinite(y)
             THEN <<[t |-> x.v, e |-> y.v, rep |-> d[i].rep]>> \o rest
             ELSE rest

\* pd.concat([to_numeric(df[a]), to_numeric(df[b])], axis=1).dropna():
\* the records in which both columns coerce, as (t, e) pairs
Paired(d, a, b) == PairedFrom(d, a, b, 1)

RECURSIVE PairedLen(_)
PairedLen(obs) == IF obs = <<>> THEN 0 ELSE Head(obs).rep + PairedLen(Tail(obs))

RECURSIVE SortAsc(_)
SortAsc(S) ==
    IF S = {} THEN <<>>
    ELSE LET m == CHOOSE x \in S : \A y \in S : x <= y
         IN  <<m>> \o SortAsc(S \ {m})

\* np.unique(times[events == 1]): the distinct event times, ascending
unique_times(obs) == SortAsc({obs[i].t : i \in {j \in 1..Len(obs) : obs[j].e = 1}})

RECURSIVE at_risk_from(_, _, _)
at_risk_from(obs, t, i) ==
    IF i > Len(obs) THEN 0
    ELSE (IF obs[i].t >= t THEN obs[i].rep ELSE 0) + at_risk_from(obs, t, i + 1)

\* np.sum(times >= t)
at_risk(obs, t) == at_risk_from(obs, t, 1)

RECURSIVE events_at_from(_, _, _)
events_at_from(obs, t, i) ==
    IF i > Len(obs) THEN 0
    ELSE (IF obs[i].t = t /\ obs[i].e = 1 THEN obs[i].rep ELSE 0)
         + events_at_from(obs, t, i + 1)

\* events_at_t without its `events == 1` conjunct: censored records counted as events
events_at_t_any(obs, t) == at_risk_from(obs, t, 1) - at_risk_from(obs, t + 1, 1)

\* np.sum((times == t) & (events == 1))
events_at_t(obs, t) == events_at_from(obs, t, 1)

\* km_loop with `survival = 1 - d / r` for `survival *= 1 - d / r`
RECURSIVE km_loop_no_product(_, _, _, _, _, _)
km_loop_no_product(obs, ts, i, num, den, curve) ==
    IF i > Len(ts) THEN curve
    ELSE LET r == at_risk(obs, ts[i])
             n2 == r - events_at_t(obs, ts[i])
         IN  km_loop_no_product(obs, ts, i + 1, n2, r,
                                Append(curve, [time |-> Round4(ts[i], 1),
                                               survival |-> Round4(n2, r)]))

\* the loop of km_curve: survival is the exact fraction num / den, and each
\* point is emitted with time and survival rounded to 4 decimals
RECURSIVE km_loop(_, _, _, _, _, _)
km_loop(obs, ts, i, num, den, curve) ==
    IF i > Len(ts) THEN curve
    ELSE LET r == at_risk(obs, ts[i])
             n2 == num * (r - events_at_t(obs, ts[i]))
             d2 == den * r
         IN  km_loop(obs, ts, i + 1, n2, d2,
                     Append(curve, [time |-> Round4(ts[i], 1),
                                    survival |-> Round4(n2, d2)]))

HalfSurvival == 5000

\* median_idx with `< 0.5` for `<= 0.5`
median_idx_strict(curve) ==
    LET hits == {i \in 1..Len(curve) : curve[i].survival < HalfSurvival}
    IN  IF hits = {} THEN None
        ELSE Fin((CHOOSE i \in hits : \A j \in hits : i <= j) - 1)

\* next((i for i, p in enumerate(curve) if p["survival"] <= 0.5), None), 0-based
median_idx(curve) ==
    LET hits == {i \in 1..Len(curve) : curve[i].survival <= HalfSurvival}
    IN  IF hits = {} THEN None
        ELSE Fin((CHOOSE i \in hits : \A j \in hits : i <= j) - 1)

\* curve[median_idx]["time"] if median_idx else None: index 0 is falsy too
median_of(curve) ==
    LET idx == median_idx(curve)
    IN  IF idx.t = "fin" /\ idx.v # 0 THEN Fin(curve[idx.v + 1].time) ELSE None

km_curve(obs) ==
    LET curve == km_loop(obs, unique_times(obs), 1, 1, 1,
                         <<[time |-> 0, survival |-> 10000]>>)
    IN  [curve |-> curve, median_survival |-> median_of(curve)]

RECURSIVE MaskFrom(_, _, _, _)
MaskFrom(d, gc, g, i) ==
    IF i > Len(d) THEN <<>>
    ELSE (IF CellEq(d[i].row[gc], g) THEN <<d[i]>> ELSE <<>>) \o MaskFrom(d, gc, g, i + 1)

\* df.loc[df[group_col] == g]
Mask(d, gc, g) == MaskFrom(d, gc, g, 1)

\* str(g) of a group value: the text of a string, the digit of a whole number
\* below 10, with ".0" in a float64 column
str_of(d, gc, g) ==
    IF g.k = "str" THEN g.s
    ELSE <<CHOOSE c \in Digits : DigitVal(c) = g.n>>
         \o (IF /\ \E i \in 1..Len(d) : d[i].row[gc].k = "null"
                /\ \A i \in 1..Len(d) : d[i].row[gc].k # "str"
             THEN <<".", "0">> ELSE <<>>)

\* the entries by group value, one per group value with 3 valid records or more
\* (label is the value whose records the entry was computed from)
RECURSIVE group_entries(_, _, _, _, _, _)
group_entries(d, time_col, event_col, group_col, groups, i) ==
    IF i > Len(groups) THEN <<>>
    ELSE LET valid == Paired(Mask(d, group_col, groups[i]), time_col, event_col)
             km == km_curve(valid)
             rest == group_entries(d, time_col, event_col, group_col, groups, i + 1)
         IN  IF PairedLen(valid) < MinObs THEN rest
             ELSE <<[key |-> str_of(d, group_col, groups[i]),
                     label |-> groups[i], curve |-> km.curve,
                     median_survival |-> km.median_survival,
                     n |-> PairedLen(valid)]>> \o rest

\* group_curves[str(g)] = {...} for each entry in turn: an entry whose key is
\* already in the dict takes the place of the one that is there
dict_of(entries) ==
    LET last(i) == CHOOSE j \in i..Len(entries) :
                        /\ entries[j].key = entries[i].key
                        /\ \A k \in (j + 1)..Len(entries) : entries[k].key # entries[i].key
        first == {i \in 1..Len(entries) :
                    \A j \in 1..(i - 1) : entries[j].key # entries[i].key}
        place == SortAsc(first)
    IN  [k \in 1..Len(place) |-> entries[last(place[k])]]

group_curves(d, time_col, event_col, group_col, groups, i) ==
    dict_of(group_entries(d, time_col, event_col, group_col, groups, i))

\* kaplan_meier with group_col validated like time_col and event_col
kaplan_meier_checks_group(d, time_col, event_col, group) ==
    IF \/ time_col \notin Columns(d) \/ event_col \notin Columns(d)
       \/ (group # <<>> /\ group[1] \notin Columns(d))
    THEN Err("InvalidColumn")
    ELSE
    LET combined == Paired(d, time_col, event_col)
    IN  IF PairedLen(combined) < MinObs THEN Err("InsufficientData")
        ELSE IF group # <<>>
        THEN LET gs == group_curves(d, time_col, event_col, group[1],
                                    unique(d, group[1]), 1)
             IN  [ok |-> TRUE, kind |-> "ok", grouped |-> TRUE,
                  time_col |-> time_col, event_col |-> event_col,
                  n |-> PairedLen(combined),
                  groups |-> gs,
                  interpretation |-> [n_groups |-> Len(gs)]]
        ELSE LET km == km_curve(combined)
             IN  [ok |-> TRUE, kind |-> "ok", grouped |-> FALSE,
                  time_col |-> time_col, event_col |-> event_col,
                  n |-> PairedLen(combined),
                  curve |-> km.curve,
                  median_survival |-> km.median_survival,
                  interpretation |->
                     [median |-> IF km.median_survival.t = "fin"
                                    /\ km.median_survival.v # 0
                                 THEN km.median_survival ELSE None]]

\* group is <<>> for group_col = None, else <<group_col>>
kaplan_meier(d, time_col, event_col, group) ==
    IF time_col \notin Columns(d) \/ event_col \notin Columns(d)
    THEN Err("InvalidColumn")
    ELSE
    LET combined == Paired(d, time_col, event_col)
    IN  IF PairedLen(combined) < MinObs THEN Err("InsufficientData")
        ELSE IF group # <<>> /\ group[1] \in Columns(d)
        THEN LET gs == group_curves(d, time_col, event_col, group[1],
                                    unique(d, group[1]), 1)
             IN  [ok |-> TRUE, kind |-> "ok", grouped |-> TRUE,
                  time_col |-> time_col, event_col |-> event_col,
                  n |-> PairedLen(combined),
                  groups |-> gs,
                  interpretation |-> [n_groups |-> Len(gs)]]
        ELSE LET km == km_curve(combined)
             IN  [ok |-> TRUE, kind |-> "ok", grouped |-> FALSE,
                  time_col |-> time_col, event_col |-> event_col,
                  n |-> PairedLen(combined),
                  curve |-> km.curve,
                  median_survival |-> km.median_survival,
                  interpretation |->
                     [median |-> IF km.median_survival.t = "fin"
                                    /\ km.median_survival.v # 0
                                 THEN km.median_survival ELSE None]]


(***************************************************************************)
(* descriptive_statistics                                                  *)
(***************************************************************************)
RECURSIVE NumericFrom(_, _, _)
NumericFrom(d, c, i) ==
    IF i > Len(d) THEN <<>>
    ELSE LET x == to_numeric(d[i].row[c])
         IN  (IF IsFinite(x) THEN <<[v |-> x.v, rep |-> d[i].rep]>> ELSE <<>>)
             \o NumericFrom(d, c, i + 1)

\* pd.to_numeric(df[c], errors="coerce").dropna()
NumericSeries(d, c) == NumericFrom(d, c, 1)

\* numbers with a missing value beside them and no string: a float64 column,
\* whose values print as "1.0"
IsFloatColumn(d, c) ==
    /\ \E i \in 1..Len(d) : d[i].row[c].k = "null"
    /\ \A i \in 1..Len(d) : d[i].row[c].k # "str"

BoolWords == {<<"t", "r", "u", "e">>, <<"f", "a", "l", "s", "e">>, <<"0">>, <<"1">>}

\* str(v).lower() in {"true", "false", "0", "1"}
InBoolWords(d, c, cell) ==
    \/ cell.k = "str" /\ lower(cell.s) \in BoolWords
    \/ cell.k = "num" /\ cell.n \in {0, 1} /\ ~IsFloatColumn(d, c)

\* lines 42-44: every non-missing value is one of the boolean words
is_boolean_like(d, c) ==
    \A i \in 1..Len(d) : d[i].row[c].k = "null" \/ InBoolWords(d, c, d[i].row[c])

RECURSIVE SumSquares(_)
SumSquares(s) ==
    IF s = <<>> THEN 0 ELSE Head(s).v * Head(s).v * Head(s).rep + SumSquares(Tail(s))

RECURSIVE CountWhere(_, _, _)
CountWhere(s, lo, hi) ==
    IF s = <<>> THEN 0
    ELSE (IF lo <= Head(s).v /\ Head(s).v <= hi THEN Head(s).rep ELSE 0)
         + CountWhere(Tail(s), lo, hi)

SeriesValues(s) == {s[i].v : i \in 1..Len(s)}
SeriesMin(s) == CHOOSE x \in SeriesValues(s) : \A y \in SeriesValues(s) : x <= y
SeriesMax(s) == CHOOSE x \in SeriesValues(s) : \A y \in SeriesValues(s) : x >= y

\* the k-th value (0-based) of the sorted series
KthValue(s, k) ==
    CHOOSE x \in SeriesValues(s) :
        /\ CountWhere(s, SeriesMin(s), x - 1) <= k
        /\ k < CountWhere(s, SeriesMin(s), x)

\* 4 * series.quantile(q4 / 4), by linear interpolation between order statistics
Quantile4(s, q4) ==
    LET n == SeriesLen(s)
        h == (n - 1) * q4
        lo == h \div 4
        hi == IF lo + 1 < n THEN lo + 1 ELSE lo
    IN  4 * KthValue(s, lo) + (h % 4) * (KthValue(s, hi) - KthValue(s, lo))

\* the values outside [q1 - 1.5 iqr, q3 + 1.5 iqr], q1 and q3 given times 4
Outliers(s, q1, q3) ==
    LET below == {x \in SeriesValues(s) : 8 * x < 2 * q1 - 3 * (q3 - q1)}
        above == {x \in SeriesValues(s) : 8 * x > 2 * q3 + 3 * (q3 - q1)}
    IN  Weight([i \in 1..Len(s) |-> s[i]],
               {i \in 1..Len(s) : s[i].v \in below \cup above})

\* series.std() squared (ddof = 1), rounded to 4 decimals: NaN below 2 values.
\* The square root is not taken: std is nan, zero or positive as this is.
SampleVariance4(s) ==
    LET n == SeriesLen(s)
    IN  IF n < 2 THEN NaN
        ELSE Fin(Round4(n * SumSquares(s) - SeriesSum(s) * SeriesSum(s), n * (n - 1)))

\* stats.skew / stats.kurtosis up to their magnitude: nan on an empty series; on
\* a series of one repeated value nan or the constant (0, -3) by scipy build
Moment(s, degenerate) ==
    IF SeriesLen(s) = 0 THEN NaN
    ELSE IF IsConstant(s) THEN degenerate
    ELSE Fin(1)

\* lines 47-67: the stat block of one column
StatBlock(col, s, env) ==
    IF SeriesLen(s) = 0
    THEN [col |-> col, count |-> 0, mean |-> NaN, median |-> NaN, std2 |-> NaN,
          min |-> NaN, max |-> NaN, q1 |-> NaN, q3 |-> NaN, iqr |-> NaN,
          skewness |-> NaN, kurtosis |-> NaN, outliers |-> 0]
    ELSE LET q1 == Quantile4(s, 1)
             q3 == Quantile4(s, 3)
         IN  [col |-> col, count |-> SeriesLen(s), mean |-> SeriesMean4(s),
              median |-> Fin(Round4(Quantile4(s, 2), 4)),
              std2 |-> SampleVariance4(s),
              min |-> Fin(Round4(SeriesMin(s), 1)), max |-> Fin(Round4(SeriesMax(s), 1)),
              q1 |-> Fin(Round4(q1, 4)), q3 |-> Fin(Round4(q3, 4)),
              iqr |-> Fin(Round4(q3 - q1, 4)),
              skewness |-> Moment(s, env.degenerate),
              kurtosis |-> Moment(s, env.degenerate),
              outliers |-> Outliers(s, q1, q3)]

RECURSIVE StatBlocks(_, _, _, _)
StatBlocks(d, columns, i, env) ==
    IF i > Len(columns) THEN <<>>
    ELSE (IF columns[i] \notin Columns(d) \/ is_boolean_like(d, columns[i])
          THEN <<>>
          ELSE <<StatBlock(columns[i], NumericSeries(d, columns[i]), env)>>)
         \o StatBlocks(d, columns, i + 1, env)

descriptive_statistics(d, columns, env) ==
    [ok |-> TRUE, kind |-> "ok", blocks |-> StatBlocks(d, columns, 1, env)]


(***************************************************************************)
(* correlation and linear_regression                                       *)
(***************************************************************************)
ConstantT(obs) == \A i, j \in 1..Len(obs) : obs[i].t = obs[j].t
ConstantE(obs) == \A i, j \in 1..Len(obs) : obs[i].e = obs[j].e

\* the nested strength(r): r in units of 1e-5; every comparison with nan is false
strength(r) ==
    LET a == IF r.v < 0 THEN 0 - r.v ELSE r.v
    IN  IF r.t # "fin" THEN "negligible"
        ELSE IF a >= 90000 THEN "very strong"
        ELSE IF a >= 70000 THEN "strong"
        ELSE IF a >= 50000 THEN "moderate"
        ELSE IF a >= 30000 THEN "weak"
        ELSE "negligible"

\* "positive" if pearson_r > 0 else "negative"
direction(r) == IF r.t = "fin" /\ r.v > 0 THEN "positive" ELSE "negative"

\* round(float(r), 4) of r in units of 1e-5, in units of 1e-4
round4_of(r) == IF r.t = "fin" THEN Fin(RoundHalfEven(r.v, 10)) ELSE r

\* pearsonr / spearmanr: nan for a constant input, else scipy's value
CoefficientOf(obs, x) == IF ConstantT(obs) \/ ConstantE(obs) THEN NaN ELSE x

correlation(d, col_a, col_b, env) ==
    IF col_a \notin Columns(d) \/ col_b \notin Columns(d)
    THEN Err("InvalidColumn")
    ELSE
    LET combined == Paired(d, col_a, col_b)
    IN  IF PairedLen(combined) < MinObs THEN Err("InsufficientData")
        ELSE
        LET pearson_r == CoefficientOf(combined, env.r)
            pearson_p == CoefficientOf(combined, env.p)
            spearman_r == CoefficientOf(combined, env.rho)
            spearman_p == CoefficientOf(combined, env.p)
        IN  [ok |-> TRUE, kind |-> "ok", col_a |-> col_a, col_b |-> col_b,
             n |-> PairedLen(combined),
             pearson |-> [r |-> round4_of(pearson_r), p_value |-> format_p(pearson_p),
                          significant |-> LessThan(pearson_p, Alpha5)],
             spearman |-> [rho |-> round4_of(spearman_r), p_value |-> format_p(spearman_p),
                           significant |-> LessThan(spearman_p, Alpha5)],
             interpretation |-> [strength |-> strength(pearson_r),
                                 direction |-> direction(pearson_r),
                                 r |-> round4_of(pearson_r),
                                 rho |-> round4_of(spearman_r)]]

\* r_value ** 2 for r in units of 1e-4
Square4(r) == IF r.t = "fin" THEN Fin(RoundHalfEven(r.v * r.v, 10000)) ELSE r

linear_regression(d, predictor_col, outcome_col, env) ==
    IF predictor_col \notin Columns(d) \/ outcome_col \notin Columns(d)
    THEN Err("InvalidColumn")
    ELSE
    LET combined == Paired(d, predictor_col, outcome_col)
    IN  IF PairedLen(combined) < MinObs THEN Err("InsufficientData")
        ELSE IF ConstantT(combined) /\ env.linregress_raises
        THEN Err("IdenticalX")
        ELSE
        LET fit(x) == IF ConstantT(combined) THEN NaN ELSE x
            r_value == fit(IF ConstantE(combined) THEN Fin(0) ELSE env.r)
            p_value == fit(IF ConstantE(combined) THEN Fin(100000) ELSE env.p)
        IN  [ok |-> TRUE, kind |-> "ok",
             predictor |-> predictor_col, outcome |-> outcome_col,
             n |-> PairedLen(combined),
             slope |-> fit(IF ConstantE(combined) THEN Fin(0) ELSE Fin(Sign(env.r.v))),
             intercept |-> fit(Fin(1)),
             r_squared |-> Square4(r_value),
             r_value |-> r_value,
             p_value |-> format_p(p_value),
             std_err |-> fit(Fin(1)),
             significant |-> LessThan(p_value, Alpha5),
             interpretation |-> [significant |-> LessThan(p_value, Alpha5),
                                 r_squared |-> Square4(r_value)]]

(***************************************************************************)
(* chi_square                                                              *)
(***************************************************************************)
\* the runs in which both columns hold a value: what pd.crosstab tabulates
BothPresent(d, a, b) ==
    {i \in 1..Len(d) : d[i].row[a].k # "null" /\ d[i].row[b].k # "null"}

\* the categories of the rows and of the columns of the contingency table
Categories(d, I, c) == {d[i].row[c] : i \in I}

RowTotal(d, I, a, x) == Weight(d, {i \in I : d[i].row[a] = x})
CellCount(d, I, a, b, x, y) == Weight(d, {i \in I : d[i].row[a] = x /\ d[i].row[b] = y})

LowExpected_or_equal(d, I, a, b) ==
    {c \in Categories(d, I, a) \X Categories(d, I, b) :
        RowTotal(d, I, a, c[1]) * RowTotal(d, I, b, c[2]) <= LowExpectedCount * Weight(d, I)}

\* the cells whose expected count, row total * column total / n, is below 5
LowExpected(d, I, a, b) ==
    {c \in Categories(d, I, a) \X Categories(d, I, b) :
        RowTotal(d, I, a, c[1]) * RowTotal(d, I, b, c[2]) < LowExpectedCount * Weight(d, I)}

LowestOf(S) == CHOOSE x \in S : \A y \in S : x.n <= y.n

\* fisher_exact's odds ratio of the sorted 2x2 table [[n11, n12], [n21, n22]]
odds_ratio(d, I, a, b) ==
    LET x1 == LowestOf(Categories(d, I, a))
        x2 == LowestOf(Categories(d, I, a) \ {x1})
        y1 == LowestOf(Categories(d, I, b))
        y2 == LowestOf(Categories(d, I, b) \ {y1})
        n12 == CellCount(d, I, a, b, x1, y2)
        n21 == CellCount(d, I, a, b, x2, y1)
    IN  IF n12 > 0 /\ n21 > 0
        THEN Fin(Round4(CellCount(d, I, a, b, x1, y1) * CellCount(d, I, a, b, x2, y2),
                        n12 * n21))
        ELSE PosInf

is_2x2_or_larger(rows, cols) == rows >= 2 /\ cols >= 2

\* contingency.shape == (2, 2)
is_2x2(rows, cols) == rows = 2 /\ cols = 2

chi_square(d, col_a, col_b, env) ==
    IF col_a \notin Columns(d) \/ col_b \notin Columns(d)
    THEN Err("InvalidColumn")
    ELSE
    LET I == BothPresent(d, col_a, col_b)
        rows == Cardinality(Categories(d, I, col_a))
        cols == Cardinality(Categories(d, I, col_b))
        dof == (rows - 1) * (cols - 1)
        chi_p == IF dof = 0 THEN Fin(100000) ELSE env.chi_p
        low == Cardinality(LowExpected(d, I, col_a, col_b))
    IN  IF rows * cols = 0 THEN Err("EmptyContingencyTable")
        ELSE [ok |-> TRUE, kind |-> "ok", col_a |-> col_a, col_b |-> col_b,
              n |-> Weight(d, I),
              chi_square |-> [statistic |-> IF dof = 0 THEN Fin(0) ELSE Fin(1),
                              p_value |-> format_p(chi_p),
                              dof |-> dof,
                              significant |-> LessThan(chi_p, Alpha5)],
              fisher |-> IF is_2x2(rows, cols)
                         THEN [present |-> TRUE,
                               odds_ratio |-> odds_ratio(d, I, col_a, col_b),
                               p_value |-> format_p(env.fisher_p),
                               significant |-> LessThan(env.fisher_p, Alpha5)]
                         ELSE [present |-> FALSE],
              assumption_warning |-> 5 * low > rows * cols,
              interpretation |-> [significant |-> LessThan(chi_p, Alpha5), dof |-> dof]]

(***************************************************************************)
(* dose_response                                                           *)
(***************************************************************************)
RECURSIVE Pow10(_)
Pow10(k) == IF k = 0 THEN 1 ELSE 10 * Pow10(k - 1)

\* pd.to_numeric of one cell in units of 1e-7, one decimal beyond data_x's six
to_fixed(c) ==
    IF c.k = "dec" THEN Fin(c.n)
    ELSE LET x == to_numeric(c)
         IN  IF IsFinite(x) THEN Fin(x.v * Pow10(DataXDecimals + 1)) ELSE x

RECURSIVE FixedPairedFrom(_, _, _, _)
FixedPairedFrom(d, a, b, i) ==
    IF i > Len(d) THEN <<>>
    ELSE LET x == to_fixed(d[i].row[a])
             y == to_fixed(d[i].row[b])
             rest == FixedPairedFrom(d, a, b, i + 1)
         IN  IF IsFinite(x) /\ IsFinite(y)
             THEN <<[t |-> x.v, e |-> y.v, rep |-> d[i].rep]>> \o rest
             ELSE rest

\* x_clean[mask], y_clean[mask] with mask = x_clean > 0
Positive(obs) == SelectSeq(obs, LAMBDA o : o.t > 0)

\* round(float(v), decimals) of v given in units of 1e-7, in units of 1e-decimals
round_to(v, decimals) == RoundHalfEven(v, Pow10(DataXDecimals + 1 - decimals))

dose_response(d, concentration_col, response_col, env) ==
    IF concentration_col \notin Columns(d) \/ response_col \notin Columns(d)
    THEN Err("InvalidColumn")
    ELSE
    LET combined == FixedPairedFrom(d, concentration_col, response_col, 1)
        clean == Positive(combined)
        r_squared == IF ConstantE(clean) THEN Fin(0) ELSE env.r2
    IN  IF PairedLen(combined) < MinPoints THEN Err("InsufficientData")
        ELSE IF PairedLen(clean) < MinPoints THEN Err("InsufficientPositive")
        ELSE IF ~env.converged THEN Err("CurveFitFailed")
        ELSE [ok |-> TRUE, kind |-> "ok",
              concentration_col |-> concentration_col, response_col |-> response_col,
              n |-> PairedLen(clean),
              ic50 |-> Fin(1), hill_slope |-> Fin(1), bottom |-> Fin(1), top |-> Fin(1),
              r_squared |-> r_squared,
              curve_points |-> CurvePoints,
              data_x |-> [i \in 1..Len(clean) |->
                            [v |-> round_to(clean[i].t, DataXDecimals), rep |-> clean[i].rep]],
              data_y |-> [i \in 1..Len(clean) |->
                            [v |-> round_to(clean[i].e, DataYDecimals), rep |-> clean[i].rep]],
              interpretation |-> [good_fit |-> r_squared.v > 9000]]


(***************************************************************************)
(* The description of a column that the upload gives and the client sends  *)
(* back with its requests.                                                 *)
(***************************************************************************)
\* lines 35-51: the kind and the missing count of a column
column_info(d, c) ==
    [name |-> c,
     type |-> IF is_boolean_like(d, c) /\ Len(unique(d, c)) <= 2 THEN "boolean"
              ELSE IF \A i \in 1..Len(d) : d[i].row[c].k # "str" THEN "numeric"
              ELSE "categorical",
     missing |-> Weight(d, {i \in 1..Len(d) : d[i].row[c].k = "null"})]

\* the ColumnInfo list of the named columns: the type the upload inferred for
\* a column of the table, "categorical" for a name the table does not have
describe(d, names) ==
    [i \in 1..Len(names) |->
        [name |-> names[i],
         type |-> IF names[i] \in Columns(d) THEN column_info(d, names[i]).type
                  ELSE "categorical"]]

(***************************************************************************)
(* suggest_tests                                                           *)
(***************************************************************************)
\* one Suggestion: the test, the kind of its warning ("none" for None), the
\* disabled flag, and the columns its reason names ("" where it names none)
Suggestion(test, tier, warning, disabled, value, group) ==
    [test |-> test, tier |-> tier, warning |-> warning, disabled |-> disabled,
     value |-> value, group |-> group]

\* the described columns of the given types, in the order they were sent
OfType(columns, types) == SelectSeq(columns, LAMBDA c : c.type \in types)

\* df[c].value_counts(): the records of each distinct non-missing value
value_counts(d, c) ==
    LET u == unique(d, c)
    IN  [i \in 1..Len(u) |->
            [label |-> u[i], n |-> Weight(d, {j \in 1..Len(d) : d[j].row[c] = u[i]})]]

\* counts.min()
counts_min(counts) ==
    LET i == CHOOSE i \in 1..Len(counts) : \A j \in 1..Len(counts) : counts[i].n <= counts[j].n
    IN  counts[i].n

\* the first position of the list that is one of I, 0 when there is none
FirstOf(I) == IF I = {} THEN 0 ELSE CHOOSE i \in I : \A j \in I : i <= j

\* lines 53-98: the first categorical column of the frame with exactly two
\* groups is suggested, with a warning when a group has fewer than 5 records
two_group_suggestion(d, numeric, categorical) ==
    LET found == FirstOf({i \in 1..Len(categorical) :
                            /\ categorical[i].name \in Columns(d)
                            /\ Len(value_counts(d, categorical[i].name)) = 2})
        has_any_cat == \E i \in 1..Len(categorical) : categorical[i].name \in Columns(d)
    IN  IF categorical = <<>> \/ numeric = <<>> THEN <<>>
        ELSE IF found # 0
        THEN <<Suggestion("Independent t-test / Mann-Whitney U", 1,
                          IF counts_min(value_counts(d, categorical[found].name)) < SuggestMinN
                          THEN "groups below 5" ELSE "none",
                          FALSE, numeric[1].name, categorical[found].name)>>
        ELSE IF has_any_cat
        THEN <<Suggestion("Independent t-test / Mann-Whitney U", 1,
                          "no column with 2 groups", TRUE, "", "")>>
        ELSE <<>>

\* lines 101-141: the first categorical column of the frame with three groups
\* or more is suggested, with a warning when a group has fewer than 3 records
anova_suggestion(d, numeric, categorical) ==
    LET found == FirstOf({i \in 1..Len(categorical) :
                            /\ categorical[i].name \in Columns(d)
                            /\ Len(value_counts(d, categorical[i].name)) >= 3})
    IN  IF categorical = <<>> \/ numeric = <<>> THEN <<>>
        ELSE IF found # 0
        THEN LET counts == value_counts(d, categorical[found].name)
             IN  <<Suggestion("One-Way ANOVA", 1,
                              IF \E i \in 1..Len(counts) : counts[i].n < MinObs
                              THEN "groups will be skipped" ELSE "none",
                              FALSE, numeric[1].name, categorical[found].name)>>
        ELSE <<Suggestion("One-Way ANOVA", 1, "no column with 3 groups", TRUE, "", "")>>

\* col_data.std() < 1e-10: two values or more, all the same (the deviation of
\* fewer values is nan, that of differing whole numbers is 0.7 or more)
is_constant(s) == SeriesLen(s) >= 2 /\ IsConstant(s)

\* lines 144-169
correlation_suggestion(d, numeric) ==
    LET n_rows == Weight(d, 1..Len(d))
        constant == \E i \in 1..Len(numeric) :
                        /\ i <= ConstantChecked
                        /\ numeric[i].name \in Columns(d)
                        /\ is_constant(NumericSeries(d, numeric[i].name))
    IN  IF Len(numeric) < 2 THEN <<>>
        ELSE <<Suggestion("Correlation (Pearson / Spearman)", 1,
                          IF constant THEN "constant column"
                          ELSE IF n_rows < CorrelationRows THEN "few rows" ELSE "none",
                          FALSE, "", "")>>

\* lines 172-185
regression_suggestion(d, numeric) ==
    IF Len(numeric) < 2 THEN <<>>
    ELSE <<Suggestion("Simple Linear Regression", 1,
                      IF Weight(d, 1..Len(d)) < RegressionRows THEN "few rows" ELSE "none",
                      FALSE, "", "")>>

\* cat_cols: the categorical columns that the frame has
cat_cols(d, categorical) == SelectSeq(categorical, LAMBDA c : c.name \in Columns(d))

\* pct_low > 0.2 for the crosstab of the columns a and b
pct_low_above_fifth(d, a, b) ==
    LET I == BothPresent(d, a, b)
        cells == Cardinality(Categories(d, I, a)) * Cardinality(Categories(d, I, b))
    IN  cells > 0 /\ 5 * Cardinality(LowExpected(d, I, a, b)) > cells

\* lines 188-223: the warning of the expected counts, replaced by the warning
\* of the many values when one of the two columns has more than 15 of them
chi_square_suggestion(d, categorical) ==
    LET cc == cat_cols(d, categorical)
        many == \E i \in 1..2 : Len(unique(d, cc[i].name)) > ManyValues
    IN  IF Len(categorical) < 2 THEN <<>>
        ELSE <<Suggestion("Chi-Square / Fisher's Exact Test", 2,
                          IF Len(cc) < 2 THEN "none"
                          ELSE IF many THEN "many unique values"
                          ELSE IF pct_low_above_fifth(d, cc[1].name, cc[2].name)
                          THEN "Fisher's exact test will be used instead"
                          ELSE "none",
                          FALSE, "", "")>>

\* log10(max) - log10(min) >= 2 over the positive values of a column (for the
\* values used here the difference of the logarithms is exact)
spans_two_decades(s) ==
    LET pos == {s[i].v : i \in {j \in 1..Len(s) : s[j].v > 0}}
    IN  pos # {} /\ \E lo \in pos, hi \in pos : hi >= Decades * lo

\* lines 226-263
dose_suggestion(d, numeric) ==
    LET concentration_found ==
            \E i \in 1..Len(numeric) :
                /\ numeric[i].name \in Columns(d)
                /\ spans_two_decades(NumericSeries(d, numeric[i].name))
        few == Weight(d, 1..Len(d)) < DoseRows
    IN  IF Len(numeric) < 2 THEN <<>>
        ELSE <<Suggestion("Dose-Response / IC50 Curve", 1,
                          IF few THEN "few data points"
                          ELSE IF ~concentration_found THEN "no wide column" ELSE "none",
                          few \/ ~concentration_found, "", "")>>

\* unique_vals.issubset({0, 1, 0.0, 1.0}): true of a column with no number
is_event_like(s) == \A i \in 1..Len(s) : s[i].v \in {0, 1}

\* (col_data >= 0).all() and col_data.max() > 1
is_time_like(s) ==
    /\ \A i \in 1..Len(s) : s[i].v >= 0
    /\ \E i \in 1..Len(s) : s[i].v > 1

\* lines 266-303: one pass over the described columns of the frame; the
\* warning is that of the last column without events, unless no event column
\* or no time column was found
kaplan_meier_suggestion(d, columns) ==
    LET present == {i \in 1..Len(columns) : columns[i].name \in Columns(d)}
        series(i) == NumericSeries(d, columns[i].name)
        no_events == {i \in present : is_event_like(series(i)) /\ SeriesSum(series(i)) = 0}
        event_col_found == \E i \in present : is_event_like(series(i))
        time_col_found == \E i \in present : is_time_like(series(i))
    IN  <<Suggestion("Kaplan-Meier Survival Analysis", 2,
                     IF ~event_col_found THEN "no event column"
                     ELSE IF ~time_col_found THEN "no time column"
                     ELSE IF no_events # {} THEN "no events" ELSE "none",
                     no_events # {} \/ ~event_col_found \/ ~time_col_found, "", "")>>

\* suggest_tests(columns, data): the suggestions in the order they are appended
suggest_tests(columns, d) ==
    LET numeric == OfType(columns, {"numeric"})
        categorical == OfType(columns, {"categorical", "boolean"})
    IN  (IF numeric # <<>>
         THEN <<Suggestion("Descriptive Statistics", 1, "none", FALSE, "", "")>> ELSE <<>>)
        \o two_group_suggestion(d, numeric, categorical)
        \o anova_suggestion(d, numeric, categorical)
        \o correlation_suggestion(d, numeric)
        \o regression_suggestion(d, numeric)
        \o chi_square_suggestion(d, categorical)
        \o dose_suggestion(d, numeric)
        \o kaplan_meier_suggestion(d, columns)

(***************************************************************************)
(* Inputs: bounded sets of tables, column names and scipy outputs.         *)
(***************************************************************************)
\* the tables of at most n runs whose rows are drawn from rows, repeated reps times
TablesOf(rows, reps, n) ==
    UNION {[1..m -> [row : rows, rep : reps]] : m \in 0..n}

AbsentColumn == "absent"

\* the columns of a file, from left to right
ColumnOrder == <<AbsentColumn, "g", "v", "x", "y", "a", "b", "z", "e", "t">>

\* the column names a call is made with: the intended ones on every table, and
\* every mix with other and absent names on the tables of at most one run
ArgPairs(d, a, b) ==
    {<<a, b>>} \cup
    (IF Len(d) <= 1
     THEN (Columns(d) \cup {AbsentColumn}) \X (Columns(d) \cup {AbsentColumn})
     ELSE {})

GroupLabels ==
    {Str(<<"a">>), Str(<<"A">>), Str(<<"b">>), Str(<<" ", "b">>), Num(1), Num(2), Null}

\* group labels of every kind over a value column of numbers and non-numbers
LabelTables ==
    TablesOf([g : GroupLabels, v : {Num(1), Str(<<"x">>)}], {1, MinObs}, MaxRuns)

\* two clean labels over varied values
ValueTables ==
    TablesOf([g : {Str(<<"a">>), Str(<<"b">>)}, v : {Num(0), Num(1), Num(5)}],
             1..MinObs, MaxRuns)

\* groups below and above the Shapiro-Wilk size guard
SizeTables ==
    TablesOf([g : {Str(<<"a">>), Str(<<"b">>)}, v : {Num(1), Num(2)}],
             {MinObs, BigRep}, MaxRuns)

\* scipy's p-values: 0.00006 and 0.05 for the tests, 0.05 and 0.05001 for Shapiro-Wilk
TestP == {Fin(6), Fin(Alpha5)}
ShapiroP == {Fin(NormalP5), Fin(NormalP5 + 1)}

TwoGroupEnvs == [sh_a : ShapiroP, sh_b : ShapiroP, t_p : TestP, u_p : TestP]
OneEnv == [sh_a |-> Fin(NormalP5 + 1), sh_b |-> Fin(NormalP5 + 1),
           t_p |-> Fin(6), u_p |-> Fin(6)]

\* three and more labels, some of them variants of one another
AnovaTables ==
    TablesOf([g : {Str(<<"a">>), Str(<<"A">>), Str(<<"b">>), Str(<<"c">>)},
              v : {Num(1), Num(2)}],
             {1, MinObs}, MaxAnovaRuns)

\* kruskal on identical numbers raises in some scipy builds and reports nan in
\* others: both outcomes are drawn where the table can make the difference
AnovaEnvs(d) ==
    [f_p : {Fin(6)}, k_p : {Fin(Alpha5)},
     kruskal_raises : IF \A i, j \in 1..Len(d) : d[i].row.v = d[j].row.v
                      THEN BOOLEAN ELSE {FALSE}]

\* survival records: event 1, censored 0, another number, or missing
SurvivalTables ==
    TablesOf([time : {Num(0), Num(1), Num(2)}, event : {Num(0), Num(1), Num(2), Null}],
             1..MaxSurvivalRep, MaxRuns)

\* survival records whose group is a number, the same number as text, or a word
MixedLabelTables ==
    TablesOf([time : {Num(1), Num(2)}, event : {Num(1)},
              g : {Num(1), Str(<<"1">>), Str(<<"a">>)}],
             {1, MinObs}, MaxRuns)

\* survival records of two groups, some of them without a group
GroupedSurvivalTables ==
    TablesOf([time : {Num(1), Num(2)}, event : {Num(0), Num(1)},
              g : {Str(<<"a">>), Str(<<"b">>), Null}],
             {1, MinObs}, MaxRuns)

\* one column of numbers, numeric, boolean and other strings, and missing values
ColumnTables ==
    TablesOf([x : {Num(0), Num(1), Num(5), Str(<<"1">>), Str(<<"T", "r", "u", "e">>),
                   Str(<<"x">>), Null}],
             1..MaxColumnRep, MaxRuns)

ColumnLists == {<<"x">>, <<AbsentColumn>>, <<AbsentColumn, "x">>}

DescriptiveEnvs(d) ==
    [degenerate : IF IsConstant(NumericSeries(d, "x")) /\ d # <<>>
                  THEN {NaN, Fin(0)} ELSE {NaN}]

\* two columns of small numbers and missing values
PairTables ==
    TablesOf([x : {Num(0), Num(1), Num(2), Null}, y : {Num(0), Num(1), Null}],
             1..MaxPairRep, MaxRuns)

\* pearsonr's r in units of 1e-5: zero and both sides of every strength band
PearsonR ==
    {Fin(0), Fin(29999), Fin(30000), Fin(0 - 49999), Fin(50000), Fin(69999),
     Fin(0 - 70000), Fin(89996), Fin(90000), Fin(0 - 100000)}

\* every r on the tables of at most two runs, two of them on the others
CorrelationEnvs(d) ==
    [r : IF Len(d) <= 2 THEN PearsonR ELSE {Fin(30000), Fin(0 - 90000)},
     rho : {Fin(29990)}, p : {Fin(6)}]

\* linregress on identical x values raises in some scipy builds and reports
\* nan in others
RegressionEnvs(d) ==
    [r : {Fin(7000)}, p : {Fin(Alpha5)},
     linregress_raises : IF ConstantT(Paired(d, "x", "y")) THEN BOOLEAN ELSE {FALSE}]

\* two categories against three, in counts around an expected count of 5
ContingencyTables ==
    TablesOf([x : {Num(0), Num(1)}, y : {Num(0), Num(1), Num(2)}], {1, 10, 20}, MaxRuns)

ChiSquareEnvs == [chi_p : {Fin(6)}, fisher_p : {Fin(Alpha5)}]

\* concentrations of zero, of one and below the sixth decimal
DoseTables ==
    TablesOf([x : {Num(0), Num(1), Dec(1), Dec(20)}, y : {Num(1), Num(2)}],
             1..MaxPairRep, MaxRuns)

DoseEnvs == [converged : BOOLEAN, r2 : {Fin(9001)}]

NoSuggestions == [columns |-> <<>>, suggestions |-> <<>>]

NoCall == [fn |-> "none", args |-> <<>>, env |-> <<>>]

Init ==
    /\ data = <<>>
    /\ call = NoCall
    /\ result = [ok |-> FALSE, kind |-> "none"]
    /\ pc = "idle"
    /\ nfev = 0
    /\ store = <<>>
    /\ now = 0
    /\ issued = <<>>
    /\ shown = NoSuggestions

Returns(d, fn, args, env, res) ==
    /\ data' = d
    /\ call' = [fn |-> fn, args |-> args, env |-> env]
    /\ result' = res
    /\ pc' = "returned"
    /\ UNCHANGED <<nfev, store, now, issued, shown>>

TwoGroupLabels ==
    /\ pc = "idle"
    /\ \E d \in LabelTables : \E a \in ArgPairs(d, "g", "v") :
        Returns(d, "two_group_comparison", a, OneEnv,
                two_group_comparison(d, a[1], a[2], OneEnv))

TwoGroupValues ==
    /\ pc = "idle"
    /\ \E d \in ValueTables :
        Returns(d, "two_group_comparison", <<"g", "v">>, OneEnv,
                two_group_comparison(d, "g", "v", OneEnv))

TwoGroupSizes ==
    /\ pc = "idle"
    /\ \E d \in SizeTables : \E env \in TwoGroupEnvs :
        Returns(d, "two_group_comparison", <<"g", "v">>, env,
                two_group_comparison(d, "g", "v", env))

OneWayAnova ==
    /\ pc = "idle"
    /\ \E d \in AnovaTables : \E a \in ArgPairs(d, "g", "v") :
        \E env \in AnovaEnvs(d) :
            Returns(d, "one_way_anova", a, env, one_way_anova(d, a[1], a[2], env))

KaplanMeier ==
    /\ pc = "idle"
    /\ \E d \in SurvivalTables : \E a \in ArgPairs(d, "time", "event") :
        \E group \in {<<>>, <<AbsentColumn>>} :
            Returns(d, "kaplan_meier", a \o group, <<>>,
                    kaplan_meier(d, a[1], a[2], group))

KaplanMeierGrouped ==
    /\ pc = "idle"
    /\ \E d \in GroupedSurvivalTables : \E group \in {<<>>, <<"g">>} :
        Returns(d, "kaplan_meier", <<"time", "event">> \o group, <<>>,
                kaplan_meier(d, "time", "event", group))

KaplanMeierLabels ==
    /\ pc = "idle"
    /\ \E d \in MixedLabelTables :
        Returns(d, "kaplan_meier", <<"time", "event", "g">>, <<>>,
                kaplan_meier(d, "time", "event", <<"g">>))

DescriptiveStatistics ==
    /\ pc = "idle"
    /\ \E d \in ColumnTables : \E columns \in ColumnLists : \E env \in DescriptiveEnvs(d) :
        Returns(d, "descriptive_statistics", columns, env,
                descriptive_statistics(d, columns, env))

Correlation ==
    /\ pc = "idle"
    /\ \E d \in PairTables : \E a \in ArgPairs(d, "x", "y") : \E env \in CorrelationEnvs(d) :
        Returns(d, "correlation", a, env, correlation(d, a[1], a[2], env))

LinearRegression ==
    /\ pc = "idle"
    /\ \E d \in PairTables : \E a \in ArgPairs(d, "x", "y") : \E env \in RegressionEnvs(d) :
        Returns(d, "linear_regression", a, env, linear_regression(d, a[1], a[2], env))

ChiSquare ==
    /\ pc = "idle"
    /\ \E d \in PairTables \cup ContingencyTables :
        \E a \in ArgPairs(d, "x", "y") : \E env \in ChiSquareEnvs :
            Returns(d, "chi_square", a, env, chi_square(d, a[1], a[2], env))

DoseResponse ==
    /\ pc = "idle"
    /\ \E d \in PairTables \cup DoseTables :
        \E a \in ArgPairs(d, "x", "y") : \E env \in DoseEnvs :
            Returns(d, "dose_response", a, env, dose_response(d, a[1], a[2], env))

Next ==
    \/ DescriptiveStatistics
    \/ TwoGroupLabels
    \/ TwoGroupValues
    \/ TwoGroupSizes
    \/ OneWayAnova
    \/ KaplanMeier
    \/ KaplanMeierGrouped
    \/ KaplanMeierLabels
    \/ Correlation
    \/ LinearRegression
    \/ ChiSquare
    \/ DoseResponse

Spec == Init /\ [][Next]_vars

(***************************************************************************)
(* dose_response step by step: the checks, then curve_fit evaluating the   *)
(* model until it has converged or has used its maxfev evaluations.        *)
(***************************************************************************)
\* tables that fail the checks and tables that reach the fit
FitTables ==
    TablesOf([x : {Num(0), Num(1)}, y : {Num(1)}], {MinPoints}, MaxFitRuns)

\* the evaluations the optimiser needs on the data: a few, all of its budget,
\* or more than its budget
FitEnvs == [needed : {2, MaxFev, MaxFev + 1}, r2 : {Fin(9001)}]

\* the outcome of the checks of lines 484-506, the fit taken as converged
Checked(d, a) == dose_response(d, a[1], a[2], [converged |-> TRUE, r2 |-> Fin(0)])

fit_continues_uncapped(n, needed) == n < needed

\* leastsq goes on while it has not converged and nfev < maxfev
fit_continues(n, needed) == n < needed /\ n < MaxFev

\* lines 484-506: a failed check raises; otherwise curve_fit is entered
FitStart ==
    /\ pc = "idle"
    /\ \E d \in FitTables : \E a \in ArgPairs(d, "x", "y") : \E env \in FitEnvs :
        IF Checked(d, a).ok
        THEN /\ data' = d
             /\ call' = [fn |-> "dose_response", args |-> a, env |-> env]
             /\ pc' = "fitting"
             /\ nfev' = 0
             /\ UNCHANGED <<result, store, now, issued, shown>>
        ELSE Returns(d, "dose_response", a, env, Checked(d, a))

\* one evaluation of four_pl by the optimiser
FitEvaluate ==
    /\ pc = "fitting"
    /\ fit_continues(nfev, call.env.needed)
    /\ nfev' = nfev + 1
    /\ UNCHANGED <<data, call, result, pc, store, now, issued, shown>>

\* curve_fit returns popt, or raises RuntimeError, which line 550 turns into
\* the ValueError of a failed fit
FitFinish ==
    /\ pc = "fitting"
    /\ ~fit_continues(nfev, call.env.needed)
    /\ result' = dose_response(data, call.args[1], call.args[2],
                               [converged |-> nfev >= call.env.needed, r2 |-> call.env.r2])
    /\ pc' = "returned"
    /\ UNCHANGED <<data, call, nfev, store, now, issued, shown>>

FitNext ==
    \/ FitStart
    \/ FitEvaluate
    \/ FitFinish

\* a call, once made, runs on: the interpreter keeps executing the function
FitSpec == Init /\ [][FitNext]_vars /\ WF_vars(FitNext)

(***************************************************************************)
(* A caller that keeps one table and makes call after call on it.          *)
(***************************************************************************)
\* tables with a column of labels and a column of numbers
SharedTables ==
    TablesOf([g : {Str(<<"a">>), Str(<<"A">>), Str(<<"b">>)}, v : {Num(1), Num(2)}],
             {MinObs}, MaxSharedRuns)

Functions ==
    {"descriptive_statistics", "two_group_comparison", "one_way_anova", "correlation",
     "linear_regression", "chi_square", "dose_response", "kaplan_meier"}

\* the arguments the caller passes: labels against numbers where the function
\* groups, numbers elsewhere, an absent column now and then
CallArgs(fn) ==
    CASE fn = "descriptive_statistics" -> {<<"v">>, <<"g", "v">>}
      [] fn \in {"two_group_comparison", "one_way_anova"} -> {<<"g", "v">>, <<"v", "v">>}
      [] fn = "kaplan_meier" -> {<<"v", "v">>, <<"v", "v", "g">>}
      [] OTHER -> {<<"v", "v">>, <<"v", AbsentColumn>>}

\* scipy is deterministic: one output per function
EnvOf(fn) ==
    CASE fn = "descriptive_statistics" -> [degenerate |-> NaN]
      [] fn = "two_group_comparison" -> OneEnv
      [] fn = "one_way_anova" -> [f_p |-> Fin(6), k_p |-> Fin(Alpha5), kruskal_raises |-> FALSE]
      [] fn = "correlation" -> [r |-> Fin(30000), rho |-> Fin(29990), p |-> Fin(6)]
      [] fn = "linear_regression" ->
            [r |-> Fin(7000), p |-> Fin(Alpha5), linregress_raises |-> FALSE]
      [] fn = "chi_square" -> [chi_p |-> Fin(6), fisher_p |-> Fin(Alpha5)]
      [] fn = "dose_response" -> [converged |-> TRUE, r2 |-> Fin(9001)]
      [] OTHER -> <<>>

\* the function fn of services/analysis.py on the table d
Run(fn, d, args, env) ==
    CASE fn = "descriptive_statistics" -> descriptive_statistics(d, args, env)
      [] fn = "two_group_comparison" -> two_group_comparison(d, args[1], args[2], env)
      [] fn = "one_way_anova" -> one_way_anova(d, args[1], args[2], env)
      [] fn = "correlation" -> correlation(d, args[1], args[2], env)
      [] fn = "linear_regression" -> linear_regression(d, args[1], args[2], env)
      [] fn = "chi_square" -> chi_square(d, args[1], args[2], env)
      [] fn = "dose_response" -> dose_response(d, args[1], args[2], env)
      [] fn = "kaplan_meier" -> kaplan_meier(d, args[1], args[2], SubSeq(args, 3, Len(args)))

table_after_in_place(fn, d, args) ==
    IF fn \in {"two_group_comparison", "one_way_anova"} /\ args[1] \in Columns(d)
    THEN NormalisedFrame(d, args[1])
    ELSE d

\* the caller's list after a call: every function starts with
\* df = pd.DataFrame(data), which copies the records' values into a frame of its
\* own, and assigns to df only
table_after(fn, d, args) == d

CallInit ==
    /\ data \in SharedTables
    /\ call = NoCall
    /\ result = [ok |-> FALSE, kind |-> "none"]
    /\ pc = "idle"
    /\ nfev = 0
    /\ store = <<>>
    /\ now = 0
    /\ issued = <<>>
    /\ shown = NoSuggestions

\* one more call on the caller's table
CallAnalysis ==
    \E fn \in Functions : \E args \in CallArgs(fn) :
        /\ call' = [fn |-> fn, args |-> args, env |-> EnvOf(fn)]
        /\ result' = Run(fn, data, args, EnvOf(fn))
        /\ data' = table_after(fn, data, args)
        /\ pc' = "returned"
        /\ UNCHANGED <<nfev, store, now, issued, shown>>

\* what a request that describes every column of the table d is answered
Answer(d) ==
    LET columns == describe(d, SelectSeq(ColumnOrder, LAMBDA c : c \in Columns(d)))
    IN  [columns |-> columns, suggestions |-> suggest_tests(columns, d)]

\* suggest_tests(columns, data): df = pd.DataFrame(data), read only
CallSuggest ==
    /\ call' = [fn |-> "suggest_tests", args |-> <<>>, env |-> <<>>]
    /\ result' = [ok |-> TRUE, kind |-> "suggestions"]
    /\ shown' = Answer(data)
    /\ data' = table_after("suggest_tests", data, <<>>)
    /\ pc' = "returned"
    /\ UNCHANGED <<nfev, store, now, issued>>

CallNext ==
    \/ CallAnalysis
    \/ CallSuggest

CallSpec == CallInit /\ [][CallNext]_vars

(***************************************************************************)
(* The service: upload, the session store of utils/session.py, and the     *)
(* requests that look a session up before they run an analysis.            *)
(***************************************************************************)
\* json.dumps of one scalar: a JSON number, string or null
json_of(c) ==
    CASE c.k = "num" -> [j |-> "number", digits |-> c.n, text |-> <<>>]
      [] c.k = "dec" -> [j |-> "number e-7", digits |-> c.n, text |-> <<>>]
      [] c.k = "str" -> [j |-> "string", digits |-> 0, text |-> c.s]
      [] c.k = "null" -> [j |-> "null", digits |-> 0, text |-> <<>>]

\* json.loads of one JSON value
cell_of(v) ==
    CASE v.j = "number" -> Num(v.digits)
      [] v.j = "number e-7" -> Dec(v.digits)
      [] v.j = "string" -> Str(v.text)
      [] v.j = "null" -> Null

\* json.dumps(data)
json_dumps(d) ==
    [i \in 1..Len(d) |->
        [row |-> [c \in DOMAIN d[i].row |-> json_of(d[i].row[c])], rep |-> d[i].rep]]

\* json.loads(raw)
json_loads(raw) ==
    [i \in 1..Len(raw) |->
        [row |-> [c \in DOMAIN raw[i].row |-> cell_of(raw[i].row[c])], rep |-> raw[i].rep]]

\* r.setex(session_id, SESSION_TTL, json.dumps(data))
setex(s, id, ttl, raw) ==
    [k \in DOMAIN s \cup {id} |-> IF k = id THEN [raw |-> raw, expires |-> now + ttl] ELSE s[k]]

\* r.delete(session_id)
delete(s, id) == [k \in DOMAIN s \ {id} |-> s[k]]

get_touching(s, id, late) ==
    IF id \in DOMAIN s /\ (now < s[id].expires \/ (now = s[id].expires /\ ~late))
    THEN [found |-> TRUE, raw |-> s[id].raw,
          store |-> [s EXCEPT ![id].expires = now + SESSION_TTL]]
    ELSE [found |-> FALSE, raw |-> <<>>, store |-> s]

\* r.get(session_id): the text while the key has not expired, else nil; in the
\* second in which the key expires (late says on which side of the instant
\* the read falls) either.  A read leaves the key and its expiry as they are.
get(s, id, late) ==
    IF id \in DOMAIN s /\ (now < s[id].expires \/ (now = s[id].expires /\ ~late))
    THEN [found |-> TRUE, raw |-> s[id].raw, store |-> s]
    ELSE [found |-> FALSE, raw |-> <<>>, store |-> s]

\* get_session: None, or the decoded dataset
get_session(s, id, late) ==
    LET r == get(s, id, late)
    IN  IF r.found
        THEN [ok |-> TRUE, kind |-> "ok", data |-> json_loads(r.raw), store |-> r.store]
        ELSE [ok |-> FALSE, kind |-> "None", data |-> <<>>, store |-> r.store]

\* the datasets sessions are made of
SessionTables ==
    TablesOf([g : {Str(<<"a">>), Str(<<"B">>)}, v : {Num(1)}], {MinObs}, 1)

\* the ids requests are made with: the issued ones, the next and a foreign one
SessionIds == 0..MaxSessions

\* the first n records of a table
RECURSIVE head(_, _)
head(d, n) ==
    IF d = <<>> \/ n = 0 THEN <<>>
    ELSE IF Head(d).rep >= n THEN <<[Head(d) EXCEPT !.rep = n]>>
    ELSE <<Head(d)>> \o head(Tail(d), n - Head(d).rep)

\* upload_csv on a file whose name ends with .csv or not and whose content
\* parses to the frame d or not; a missing value is Null before the
\* sanitising (NaN) and after it (None)
upload_csv(name_ok, parses, d) ==
    IF ~name_ok THEN [ok |-> FALSE, kind |-> "UnsupportedFile"]
    ELSE IF ~parses THEN [ok |-> FALSE, kind |-> "ParseError"]
    ELSE [ok |-> TRUE, kind |-> "ok",
          rows |-> Weight(d, 1..Len(d)),
          columns |-> {column_info(d, c) : c \in Columns(d)},
          preview |-> head(d, PreviewRows),
          data |-> d]

\* parsed CSV files with a line of data or more: a column of numbers with
\* gaps and a column of words
UploadTables ==
    TablesOf([x : {Num(0), Null}, s : {Str(<<"a">>)}],
             {1, PreviewRows + 1}, MaxUploadRuns) \ {<<>>}

\* the instants the clock is read at: the start, and the seconds around
\* each whole lifetime after it
Instants ==
    {0} \cup {k * SESSION_TTL + e : k \in 1..MaxLifetimes, e \in {0 - 1, 0, 1}}

\* POST /upload
Upload ==
    \E name_ok \in BOOLEAN, parses \in BOOLEAN : \E d \in UploadTables :
        /\ call' = [fn |-> "upload_csv", args |-> <<name_ok, parses>>, env |-> <<>>,
                     at |-> now]
        /\ result' = upload_csv(name_ok, parses, d)
        /\ data' = d
        /\ pc' = "returned"
        /\ UNCHANGED <<nfev, store, now, issued, shown>>

\* create_session(data): a fresh uuid4, here the next unused number
CreateSession ==
    /\ Len(issued) < MaxSessions
    /\ \E d \in SessionTables :
        LET session_id == Len(issued) + 1
        IN  /\ store' = setex(store, session_id, SESSION_TTL, json_dumps(d))
            /\ issued' = Append(issued, [data |-> d, at |-> now, deleted |-> FALSE])
            /\ call' = [fn |-> "create_session", args |-> <<session_id>>, env |-> <<>>,
                     at |-> now]
            /\ result' = [ok |-> TRUE, kind |-> "ok", session_id |-> session_id]
            /\ data' = d
            /\ pc' = "returned"
            /\ UNCHANGED <<nfev, now, shown>>

\* get_session(session_id)
GetSession ==
    \E id \in SessionIds, late \in BOOLEAN :
        LET r == get_session(store, id, late)
        IN  /\ call' = [fn |-> "get_session", args |-> <<id>>, env |-> <<>>,
                     at |-> now]
            /\ result' = [ok |-> r.ok, kind |-> r.kind, data |-> r.data]
            /\ store' = r.store
            /\ data' = r.data
            /\ pc' = "returned"
            /\ UNCHANGED <<nfev, now, issued, shown>>

\* delete_session(session_id)
DeleteSession ==
    \E id \in SessionIds :
        /\ store' = delete(store, id)
        /\ issued' = [k \in 1..Len(issued) |->
                        IF k = id THEN [issued[k] EXCEPT !.deleted = TRUE] ELSE issued[k]]
        /\ call' = [fn |-> "delete_session", args |-> <<id>>, env |-> <<>>,
                     at |-> now]
        /\ result' = [ok |-> TRUE, kind |-> "ok"]
        /\ pc' = "returned"
        /\ UNCHANGED <<data, nfev, now, shown>>

\* an analysis endpoint: get_data answers 404 when the lookup gives None,
\* otherwise the function runs on the dataset of the session
AnalysisRequest ==
    \E id \in SessionIds, late \in BOOLEAN : \E fn \in Functions : \E args \in CallArgs(fn) :
        LET r == get_session(store, id, late)
        IN  /\ call' = [fn |-> fn, args |-> args, env |-> EnvOf(fn), session_id |-> id,
                     at |-> now]
            /\ result' = IF r.ok THEN Run(fn, r.data, args, EnvOf(fn))
                          ELSE [ok |-> FALSE, kind |-> "NotFound"]
            /\ store' = r.store
            /\ data' = r.data
            /\ pc' = "returned"
            /\ UNCHANGED <<nfev, now, issued, shown>>

\* POST /suggest: 404 when the lookup gives None, otherwise suggest_tests on
\* the dataset
SuggestRequest ==
    \E id \in SessionIds, late \in BOOLEAN :
        LET r == get_session(store, id, late)
        IN  /\ call' = [fn |-> "suggest_tests", args |-> <<>>, env |-> <<>>, session_id |-> id,
                     at |-> now]
            /\ result' = IF r.ok THEN [ok |-> TRUE, kind |-> "suggestions"]
                          ELSE [ok |-> FALSE, kind |-> "NotFound"]
            /\ shown' = IF r.ok THEN Answer(r.data) ELSE shown
            /\ store' = r.store
            /\ data' = r.data
            /\ pc' = "returned"
            /\ UNCHANGED <<nfev, now, issued>>

\* time passes
Tick ==
    /\ \E t \in Instants : t > now /\ now' = t
    /\ UNCHANGED <<data, call, result, pc, nfev, store, issued, shown>>

SessionNext ==
    \/ Upload
    \/ CreateSession
    \/ GetSession
    \/ DeleteSession
    \/ AnalysisRequest
    \/ SuggestRequest
    \/ Tick

SessionSpec == Init /\ [][SessionNext]_vars

(***************************************************************************)
(* A client that asks for suggestions on a table and then runs a suggested *)
(* test on the same table.                                                 *)
(***************************************************************************)
\* two and more groups of 1, 3 or 5 records, some labels variants of one another
SuggestGroupTables ==
    TablesOf([g : {Str(<<"a">>), Str(<<"A">>), Str(<<"b">>)}, v : {Num(2)}],
             {1, MinObs, SuggestMinN}, MaxSuggestRuns)

\* two categorical columns, of two and of three categories, in small and in
\* large cells
SuggestCategoryTables ==
    TablesOf([a : {Str(<<"p">>), Str(<<"q">>)},
              b : {Str(<<"r">>), Str(<<"s">>), Str(<<"t">>)}],
             {1, 4 * LowExpectedCount}, MaxSuggestRuns)

\* an event column, a time column and a third column of zeros or of text
SuggestEventTables ==
    TablesOf([e : {Num(0), Num(1)}, t : {Num(0), Num(2)}, z : {Num(0), Str(<<"a">>)}],
             {1}, MaxEventRuns)

SuggestTables == SuggestGroupTables \cup SuggestCategoryTables \cup SuggestEventTables

\* the column lists a request describes: some of the table's columns, in the
\* order of the file, with or without a name the table does not have
DescribedNames(d) ==
    {SelectSeq(ColumnOrder, LAMBDA c : c \in S) : S \in SUBSET (Columns(d) \cup {AbsentColumn})}

\* every value of the column is a number
FullyNumeric(d, c) == \A i \in 1..Len(d) : d[i].row[c].k = "num"

TwoGroupTest == "Independent t-test / Mann-Whitney U"
AnovaTest == "One-Way ANOVA"
ChiSquareTest == "Chi-Square / Fisher's Exact Test"
KaplanMeierTest == "Kaplan-Meier Survival Analysis"

\* the suggestions of the list for the test, in order
Suggested(list, test) == SelectSeq(list, LAMBDA s : s.test = test)

\* POST /suggest
Suggest ==
    /\ pc = "idle"
    /\ \E d \in SuggestTables : \E names \in DescribedNames(d) :
        /\ data' = d
        /\ call' = [fn |-> "suggest_tests", args |-> names, env |-> <<>>]
        /\ shown' = [columns |-> describe(d, names),
                     suggestions |-> suggest_tests(describe(d, names), d)]
        /\ result' = [ok |-> TRUE, kind |-> "suggestions"]
        /\ pc' = "suggested"
        /\ UNCHANGED <<nfev, store, now, issued>>

\* the client runs the enabled two-group suggestion: the group column it
\* names, against a numeric column of the table
RunTwoGroup ==
    /\ pc = "suggested"
    /\ \E s \in {shown.suggestions[i] : i \in 1..Len(shown.suggestions)} :
        /\ s.test = TwoGroupTest
        /\ ~s.disabled
        /\ \E vc \in {c \in Columns(data) : FullyNumeric(data, c)} :
            /\ call' = [fn |-> "two_group_comparison", args |-> <<s.group, vc>>,
                        env |-> OneEnv]
            /\ result' = two_group_comparison(data, s.group, vc, OneEnv)
    /\ pc' = "returned"
    /\ UNCHANGED <<data, nfev, store, now, issued, shown>>

\* the client runs the enabled ANOVA suggestion
RunAnova ==
    /\ pc = "suggested"
    /\ \E s \in {shown.suggestions[i] : i \in 1..Len(shown.suggestions)} :
        /\ s.test = AnovaTest
        /\ ~s.disabled
        /\ \E vc \in {c \in Columns(data) : FullyNumeric(data, c)} :
            /\ call' = [fn |-> "one_way_anova", args |-> <<s.group, vc>>,
                        env |-> EnvOf("one_way_anova")]
            /\ result' = one_way_anova(data, s.group, vc, EnvOf("one_way_anova"))
    /\ pc' = "returned"
    /\ UNCHANGED <<data, nfev, store, now, issued, shown>>

\* the client runs the chi-square suggestion on the two columns its warning
\* was computed from: the first two categorical columns of the table
RunChiSquare ==
    /\ pc = "suggested"
    /\ Suggested(shown.suggestions, ChiSquareTest) # <<>>
    /\ LET cc == cat_cols(data, OfType(shown.columns, {"categorical", "boolean"}))
       IN  /\ Len(cc) >= 2
           /\ call' = [fn |-> "chi_square", args |-> <<cc[1].name, cc[2].name>>,
                       env |-> EnvOf("chi_square")]
           /\ result' = chi_square(data, cc[1].name, cc[2].name, EnvOf("chi_square"))
    /\ pc' = "returned"
    /\ UNCHANGED <<data, nfev, store, now, issued, shown>>

SuggestNext ==
    \/ Suggest
    \/ RunTwoGroup
    \/ RunAnova
    \/ RunChiSquare

SuggestSpec == Init /\ [][SuggestNext]_vars

(***************************************************************************)
(* What the claims speak of, read off the caller's table.                  *)
(***************************************************************************)
Returned(fn) == pc = "returned" /\ call.fn = fn

\* the distinct non-missing raw values of a column
RawLabels(d, c) == {d[i].row[c] : i \in 1..Len(d)} \ {Null}

\* a label with its text trimmed and lower-cased; other labels as they are
NormLabel(l) == IF l.k = "str" THEN Str(lower(strip(l.s))) ELSE l

RECURSIVE CountRows(_, _, _, _, _)
CountRows(d, gc, ls, vc, i) ==
    IF i > Len(d) THEN 0
    ELSE (IF d[i].row[gc] \in ls /\ to_numeric(d[i].row[vc]).t = "fin"
          THEN d[i].rep ELSE 0)
         + CountRows(d, gc, ls, vc, i + 1)

\* the number of records whose label is in ls and whose value coerces to a number
Coercible(d, gc, ls, vc) == CountRows(d, gc, ls, vc, 1)

\* the raw labels that normalise to the same label as l
SameGroup(d, gc, l) == {m \in RawLabels(d, gc) : NormLabel(m) = NormLabel(l)}

(***************************************************************************)
(* C1. Two distinct non-missing group labels of any kind, each with at     *)
(* least 3 coercible values: two_group_comparison returns both test        *)
(* blocks and each group's n is its count of coercible values.             *)
(***************************************************************************)
C1_TwoLabelsAlwaysAccepted ==
    (/\ Returned("two_group_comparison")
     /\ {call.args[1], call.args[2]} \subseteq Columns(data)
     /\ Cardinality(RawLabels(data, call.args[1])) = 2
     /\ \A l \in RawLabels(data, call.args[1]) :
            Coercible(data, call.args[1], {l}, call.args[2]) >= MinObs)
    => /\ result.ok
       /\ \A i \in 1..2 :
            result.groups[i].n =
                Coercible(data, call.args[1], {result.groups[i].label}, call.args[2])

(***************************************************************************)
(* C2. Textual labels are normalised before the groups are counted: the    *)
(* call fails with InvalidGroupCount exactly when the labels collapse to   *)
(* a number of groups other than 2.                                        *)
(***************************************************************************)
C2_NormalisedBeforeCount ==
    (/\ Returned("two_group_comparison")
     /\ {call.args[1], call.args[2]} \subseteq Columns(data))
    => LET k == Cardinality({NormLabel(l) : l \in RawLabels(data, call.args[1])})
       IN  (result.kind = "InvalidGroupCount") <=> (k # 2)

(***************************************************************************)
(* C3. one_way_anova on at least 3 distinct groups: a group is skipped     *)
(* only if it has fewer than 3 coercible values, whatever its label, the   *)
(* groups block holds the groups that stay, and the call fails with        *)
(* TooFewValidGroups exactly when fewer than 3 groups stay.                *)
(***************************************************************************)
C3_SkipsOnlySmallGroups ==
    LET gc == call.args[1]
        vc == call.args[2]
        labels == RawLabels(data, gc)
        norm == {NormLabel(l) : l \in labels}
        size(l) == Coercible(data, gc, SameGroup(data, gc, l), vc)
        valid == {NormLabel(l) : l \in {m \in labels : size(m) >= MinObs}}
    IN  (/\ Returned("one_way_anova")
         /\ {gc, vc} \subseteq Columns(data)
         /\ Cardinality(labels) >= 3
         /\ Cardinality(norm) >= 3)
        => /\ (result.kind = "TooFewValidGroups") <=> (Cardinality(valid) < 3)
           /\ result.kind = "TooFewValidGroups" =>
                \A i \in 1..Len(result.skipped) : size(result.skipped[i]) < MinObs
           /\ result.kind = "ok" =>
                /\ \A i \in 1..Len(result.skipped_groups) :
                        size(result.skipped_groups[i]) < MinObs
                /\ result.n_groups = Len(result.groups)
                /\ \A i \in 1..Len(result.groups) : result.groups[i].n >= MinObs

(***************************************************************************)
(* Kaplan-Meier: the product-limit estimator, read off the caller's table. *)
(***************************************************************************)
\* the runs of the table in which time and event both coerce to numbers
ValidRows(d, tc, ec) ==
    {i \in 1..Len(d) : to_numeric(d[i].row[tc]).t = "fin" /\ to_numeric(d[i].row[ec]).t = "fin"}

TimeOf(d, tc, i) == to_numeric(d[i].row[tc]).v
IsEvent(d, ec, i) == to_numeric(d[i].row[ec]).v = 1

\* the distinct times at which some record of I has event = 1
EventTimes(d, I, tc, ec) == {TimeOf(d, tc, i) : i \in {j \in I : IsEvent(d, ec, j)}}

\* d(t): records of I with time t and event 1;  r(t): records of I with time >= t
Deaths(d, I, tc, ec, t) == Weight(d, {i \in I : TimeOf(d, tc, i) = t /\ IsEvent(d, ec, i)})
AtRisk(d, I, tc, t) == Weight(d, {i \in I : TimeOf(d, tc, i) >= t})

\* the product of (1 - d(s) / r(s)) over the event times s in T, as <<num, den>>
RECURSIVE ProductLimit(_, _, _, _, _)
ProductLimit(d, I, tc, ec, T) ==
    IF T = {} THEN <<1, 1>>
    ELSE LET s == CHOOSE x \in T : TRUE
             rest == ProductLimit(d, I, tc, ec, T \ {s})
         IN  <<rest[1] * (AtRisk(d, I, tc, s) - Deaths(d, I, tc, ec, s)),
               rest[2] * AtRisk(d, I, tc, s)>>

\* the reference curve: (0, 1.0), then one point per event time, ascending
ReferenceCurve(d, I, tc, ec) ==
    LET E == EventTimes(d, I, tc, ec)
        ts == SortAsc(E)
    IN  <<[time |-> 0, survival |-> 10000]>> \o
        [k \in 1..Len(ts) |->
            LET pl == ProductLimit(d, I, tc, ec, {s \in E : s <= ts[k]})
            IN  [time |-> ts[k] * 10000, survival |-> Round4(pl[1], pl[2])]]

\* the (records, curve, median) triples of a kaplan_meier result
KmOutputs ==
    IF result.grouped
    THEN {[rows |-> {i \in ValidRows(data, call.args[1], call.args[2]) :
                        data[i].row[call.args[3]] = result.groups[k].label},
           curve |-> result.groups[k].curve,
           median |-> result.groups[k].median_survival] : k \in 1..Len(result.groups)}
    ELSE {[rows |-> ValidRows(data, call.args[1], call.args[2]),
           curve |-> result.curve,
           median |-> result.median_survival]}

KmReturned == Returned("kaplan_meier") /\ result.ok

(***************************************************************************)
(* C4. Every curve kaplan_meier emits starts with (0, 1.0), keeps its      *)
(* survival within [0, 1] and never increases from a point to the next.    *)
(***************************************************************************)
C4_CurveMonotoneBounded ==
    KmReturned =>
        \A o \in KmOutputs :
            /\ o.curve[1] = [time |-> 0, survival |-> 10000]
            /\ \A i \in 1..Len(o.curve) :
                    o.curve[i].survival >= 0 /\ o.curve[i].survival <= 10000
            /\ \A i \in 1..(Len(o.curve) - 1) :
                    o.curve[i + 1].survival <= o.curve[i].survival

\* a grouped call in which some group's curve steps down twice
C4_Witness ==
    /\ KmReturned
    /\ result.grouped
    /\ \E o \in KmOutputs :
        Len(o.curve) = 3 /\ o.curve[3].survival < o.curve[2].survival

(***************************************************************************)
(* C5. km_curve is the product-limit estimator: after (0, 1.0), one point  *)
(* per distinct time t with an event, ascending, whose survival is the     *)
(* product over the event times s <= t of 1 - d(s) / r(s), rounded to 4    *)
(* decimals, d counting the events at s and r every record with time >= s, *)
(* censored ones included.                                                 *)
(***************************************************************************)
C5_ProductLimit ==
    KmReturned =>
        \A o \in KmOutputs :
            o.curve = ReferenceCurve(data, o.rows, call.args[1], call.args[2])

\* two event times, one of them shared with a censored record
C5_Witness ==
    /\ KmReturned
    /\ ~result.grouped
    /\ Len(result.curve) = 3
    /\ \E i, j \in ValidRows(data, call.args[1], call.args[2]) :
        /\ IsEvent(data, call.args[2], i)
        /\ ~IsEvent(data, call.args[2], j)
        /\ TimeOf(data, call.args[1], i) = TimeOf(data, call.args[1], j)

(***************************************************************************)
(* C6. median_survival is the time of the first curve point whose survival *)
(* is <= 0.5, and null exactly when there is no such point; with no event  *)
(* the curve is the single point (0, 1.0) and the median is null.          *)
(***************************************************************************)
C6_MedianFirstHalf ==
    KmReturned =>
        \A o \in KmOutputs :
            LET hits == {i \in 1..Len(o.curve) : o.curve[i].survival <= HalfSurvival}
            IN  /\ (o.median = None) <=> (hits = {})
                /\ hits # {} =>
                     \E i \in hits : /\ \A j \in hits : i <= j
                                     /\ o.median = Fin(o.curve[i].time)
                /\ EventTimes(data, o.rows, call.args[1], call.args[2]) = {} =>
                     /\ o.curve = <<[time |-> 0, survival |-> 10000]>>
                     /\ o.median = None

\* the median is reached at a point whose survival is exactly 0.5
C6_Witness ==
    /\ KmReturned
    /\ ~result.grouped
    /\ result.median_survival.t = "fin"
    /\ \E i \in 1..Len(result.curve) :
        /\ result.curve[i].survival = HalfSurvival
        /\ result.curve[i].time = result.median_survival.v
        /\ \A j \in 1..(i - 1) : result.curve[j].survival > HalfSurvival

(***************************************************************************)
(* C7. No analysis function returns a result in which a numeric field is   *)
(* NaN or +/-Infinity: an undefined quantity is null or left out, or the   *)
(* call fails.                                                             *)
(***************************************************************************)
\* the numeric fields of the result of the call made
NumericFields ==
    CASE call.fn = "descriptive_statistics" ->
            UNION {{b.mean, b.median, b.std2, b.min, b.max, b.q1, b.q3, b.iqr,
                    b.skewness, b.kurtosis} :
                   b \in {result.blocks[i] : i \in 1..Len(result.blocks)}}
      [] call.fn = "two_group_comparison" ->
            {result.groups[1].mean, result.groups[2].mean,
             result.groups[1].normality_p, result.groups[2].normality_p,
             result.t_test.statistic, result.mann_whitney.statistic2,
             result.mann_whitney.p_value}
      [] call.fn = "one_way_anova" ->
            {result.groups[i].mean : i \in 1..Len(result.groups)}
            \cup {result.anova.f_statistic, result.kruskal_wallis.h_statistic}
      [] call.fn = "correlation" -> {result.pearson.r, result.spearman.rho}
      [] call.fn = "linear_regression" ->
            {result.slope, result.intercept, result.r_squared, result.r_value,
             result.std_err}
      [] call.fn = "chi_square" ->
            {result.chi_square.statistic}
            \cup (IF result.fisher.present THEN {result.fisher.odds_ratio} ELSE {})
      [] call.fn = "dose_response" ->
            {result.ic50, result.hill_slope, result.bottom, result.top, result.r_squared}
      [] OTHER -> {}

C7_NoNaNInResult ==
    (pc = "returned" /\ result.ok) => \A f \in NumericFields : ~NotANumber(f)

(***************************************************************************)
(* C8. Each of the seven analyses with required columns fails with         *)
(* InvalidColumn, before any other check, whenever a required column is    *)
(* not a column of the table, the empty table included; a group column of  *)
(* kaplan_meier that is not in the table changes nothing.                  *)
(***************************************************************************)
StrictFunctions ==
    {"two_group_comparison", "one_way_anova", "correlation", "linear_regression",
     "chi_square", "dose_response", "kaplan_meier"}

\* c is a key of some record of the caller's table
HasColumn(c) == \E i \in 1..Len(data) : c \in DOMAIN data[i].row

C8_MissingColumnRejected ==
    (pc = "returned" /\ call.fn \in StrictFunctions) =>
        /\ (~HasColumn(call.args[1]) \/ ~HasColumn(call.args[2]))
                => result.kind = "InvalidColumn"
        /\ (HasColumn(call.args[1]) /\ HasColumn(call.args[2]))
                => result.kind # "InvalidColumn"
        /\ (call.fn = "kaplan_meier" /\ Len(call.args) = 3 /\ ~HasColumn(call.args[3])
            /\ HasColumn(call.args[1]) /\ HasColumn(call.args[2]))
                => result = kaplan_meier(data, call.args[1], call.args[2], <<>>)

\* a survival analysis that succeeds although its group column is absent
C8_Witness ==
    /\ Returned("kaplan_meier")
    /\ Len(call.args) = 3
    /\ ~HasColumn(call.args[3])
    /\ result.ok

(***************************************************************************)
(* C9. recommended_test is 't-test' exactly when both groups are labelled  *)
(* 'normal' (normality computed, p > 0.05) and 'Mann-Whitney U' otherwise, *)
(* also when a group exceeds 5000 observations; the interpretation is      *)
(* worded significant exactly when the recommended test's p is below 0.05. *)
(***************************************************************************)
\* group i was tested for normality and found normal
FoundNormal(i, sh) == result.groups[i].n <= ShapiroMax /\ sh.v > NormalP5

C9_RecommendedTest ==
    (Returned("two_group_comparison") /\ result.ok) =>
        LET both == FoundNormal(1, call.env.sh_a) /\ FoundNormal(2, call.env.sh_b)
            t_below == result.t_test.statistic.t # "nan" /\ call.env.t_p.v < Alpha5
            u_below == call.env.u_p.v < Alpha5
        IN  /\ result.recommended_test = (IF both THEN "t-test" ELSE "Mann-Whitney U")
            /\ result.interpretation.test = result.recommended_test
            /\ result.interpretation.significant = (IF both THEN t_below ELSE u_below)
            /\ \A i \in 1..2 :
                /\ (result.groups[i].normality = "normal")
                     <=> FoundNormal(i, IF i = 1 THEN call.env.sh_a ELSE call.env.sh_b)
                /\ result.groups[i].n > ShapiroMax => result.groups[i].normality_p = None

\* one group too large for Shapiro-Wilk, the other normal; only the t-test is below 0.05
C9_Witness ==
    /\ Returned("two_group_comparison")
    /\ result.ok
    /\ result.groups[1].n > ShapiroMax
    /\ result.groups[2].normality = "normal"
    /\ result.recommended_test = "Mann-Whitney U"
    /\ result.t_test.significant
    /\ ~result.mann_whitney.significant
    /\ ~result.interpretation.significant

(***************************************************************************)
(* C10. Whenever two_group_comparison returns, the sign of the t statistic *)
(* (the sign of mean(A) - mean(B)) agrees with the side of n_A * n_B / 2   *)
(* on which the Mann-Whitney U statistic of group A lies.                  *)
(***************************************************************************)
\* the direction of the t statistic: -1, 0 or 1
TDirection ==
    CASE result.t_test.statistic.t = "inf" -> 1
      [] result.t_test.statistic.t = "-inf" -> 0 - 1
      [] OTHER -> result.t_test.statistic.v

\* the direction of U: the sign of 2U - n_A * n_B
UDirection ==
    Sign(result.mann_whitney.statistic2.v - result.groups[1].n * result.groups[2].n)

C10_SameDirection ==
    (Returned("two_group_comparison") /\ result.ok
        /\ result.t_test.statistic.t # "nan")
    => TDirection = UDirection

\* the numeric values of the records labelled as group i of the result
ValuesOf(i) ==
    {to_numeric(data[k].row[call.args[2]]).v :
        k \in {j \in 1..Len(data) :
                /\ data[j].row[call.args[1]] = result.groups[i].label
                /\ to_numeric(data[j].row[call.args[2]]).t = "fin"}}

\* no value of one group lies strictly beyond a value of the other, and the
\* values are not all one number
Separated ==
    /\ \/ \A a \in ValuesOf(1), b \in ValuesOf(2) : a >= b
       \/ \A a \in ValuesOf(1), b \in ValuesOf(2) : a <= b
    /\ Cardinality(ValuesOf(1) \cup ValuesOf(2)) > 1

\* C10, amended: the directions agree whenever the groups do not overlap
C10_SameDirectionSeparated ==
    (Returned("two_group_comparison") /\ result.ok /\ Separated)
    => TDirection = UDirection /\ TDirection # 0

\* group A lies below group B, touching it: both tests point down
C10_Witness ==
    /\ Returned("two_group_comparison")
    /\ result.ok
    /\ Separated
    /\ ValuesOf(1) \cap ValuesOf(2) # {}
    /\ TDirection = 0 - 1
    /\ UDirection = 0 - 1

(***************************************************************************)
(* C11. descriptive_statistics has one stat block for exactly those        *)
(* requested columns that are in the table and are not boolean-like, a     *)
(* boolean-like column being one whose non-missing values, lower-cased,    *)
(* are among true, false, 0, 1 and of which at most 2 are distinct.        *)
(***************************************************************************)
\* the text of the non-missing values of a column, lower-cased
WordsOf(d, c) ==
    {IF d[i].row[c].k = "str" THEN lower(d[i].row[c].s)
     ELSE IF IsFloatColumn(d, c) THEN <<"n", ".", "0">>
     ELSE IF d[i].row[c].n = 0 THEN <<"0">>
     ELSE IF d[i].row[c].n = 1 THEN <<"1">>
     ELSE <<"n">> :
        i \in {j \in 1..Len(d) : d[j].row[c].k # "null"}}

BooleanColumn(d, c) == WordsOf(d, c) \subseteq BoolWords /\ Cardinality(WordsOf(d, c)) <= 2

BlockColumns == {result.blocks[i].col : i \in 1..Len(result.blocks)}

Requested == {call.args[i] : i \in 1..Len(call.args)}

C11_BlocksForNumericColumns ==
    Returned("descriptive_statistics")
    => /\ result.ok
       /\ BlockColumns = {c \in Requested \cap Columns(data) : ~BooleanColumn(data, c)}

(***************************************************************************)
(* C12. chi_square attaches an assumption_warning exactly when strictly    *)
(* more than 20% of the cells of the contingency table have an expected    *)
(* count, row total * column total / grand total, below 5.                 *)
(***************************************************************************)
\* the number of records whose col_a value is in xs and col_b value in ys
RECURSIVE Tally(_, _, _, _)
Tally(d, xs, ys, i) ==
    IF i > Len(d) THEN 0
    ELSE (IF d[i].row[call.args[1]] \in xs /\ d[i].row[call.args[2]] \in ys
          THEN d[i].rep ELSE 0)
         + Tally(d, xs, ys, i + 1)

\* the values of a column in the records where neither column is missing
Levels(c) ==
    {data[i].row[c] :
        i \in {j \in 1..Len(data) : /\ data[j].row[call.args[1]] # Null
                                    /\ data[j].row[call.args[2]] # Null}}

Cells == Levels(call.args[1]) \X Levels(call.args[2])

\* the cells with row total * column total < 5 * grand total
CellsBelowFive ==
    {c \in Cells :
        Tally(data, {c[1]}, Levels(call.args[2]), 1) * Tally(data, Levels(call.args[1]), {c[2]}, 1)
            < 5 * Tally(data, Levels(call.args[1]), Levels(call.args[2]), 1)}

C12_WarningAboveFifth ==
    (Returned("chi_square") /\ result.ok)
    => (result.assumption_warning <=> 5 * Cardinality(CellsBelowFive) > Cardinality(Cells))

\* a 2 x 3 table with one low cell of six: below the 20% and no warning
C12_Witness ==
    /\ Returned("chi_square")
    /\ result.ok
    /\ Cardinality(Cells) = 6
    /\ Cardinality(CellsBelowFive) = 1
    /\ ~result.assumption_warning

(***************************************************************************)
(* C13. chi_square returns a fisher block exactly when the cross-          *)
(* tabulation of the records with both values present has 2 distinct       *)
(* values in the first column and 2 in the second; fisher is null for any  *)
(* other shape, and with no cell the call fails with                       *)
(* EmptyContingencyTable.                                                  *)
(***************************************************************************)
C13_FisherOnlyTwoByTwo ==
    (Returned("chi_square") /\ {call.args[1], call.args[2]} \subseteq Columns(data))
    => IF Cells = {}
       THEN ~result.ok /\ result.kind = "EmptyContingencyTable"
       ELSE /\ result.ok
            /\ result.fisher.present
                <=> (Cardinality(Levels(call.args[1])) = 2 /\ Cardinality(Levels(call.args[2])) = 2)

\* a 2 x 2 table, one record of it without a value, with its exact test
C13_Witness ==
    /\ Returned("chi_square")
    /\ result.ok
    /\ \E i \in 1..Len(data) : data[i].row[call.args[1]] = Null
    /\ Cardinality(Cells) = 4
    /\ result.fisher.present
    /\ result.fisher.odds_ratio.t = "fin"

(***************************************************************************)
(* C14. dose_response fails when fewer than 4 records have a numeric       *)
(* concentration and response, fails when fewer than 4 of those have a     *)
(* concentration above 0, and on success n, data_x and data_y are exactly  *)
(* the retained records in table order, so every data_x value is above 0.  *)
(***************************************************************************)
\* the value of a cell in units of 1e-7; -1 stands for a cell that is no number
Tenmillionths(c) ==
    CASE c.k = "num" -> c.n * 10000000
      [] c.k = "dec" -> c.n
      [] c.k = "str" /\ Len(c.s) = 1 /\ c.s[1] \in Digits -> DigitVal(c.s[1]) * 10000000
      [] OTHER -> 0 - 1

\* the runs whose concentration and response are numbers, the concentration
\* being at least lowest
RetainedRuns(lowest) ==
    SelectSeq(data, LAMBDA r : /\ Tenmillionths(r.row[call.args[1]]) >= lowest
                               /\ Tenmillionths(r.row[call.args[2]]) >= 0)

RECURSIVE Records(_)
Records(runs) == IF runs = <<>> THEN 0 ELSE Head(runs).rep + Records(Tail(runs))

C14_FitsPositiveRows ==
    (Returned("dose_response") /\ {call.args[1], call.args[2]} \subseteq Columns(data))
    => LET kept == RetainedRuns(1)
       IN  IF Records(RetainedRuns(0)) < 4 THEN result.kind = "InsufficientData"
           ELSE IF Records(kept) < 4 THEN result.kind = "InsufficientPositive"
           ELSE result.ok =>
                /\ result.n = Records(kept)
                /\ Len(result.data_x) = Len(kept) /\ Len(result.data_y) = Len(kept)
                /\ \A i \in 1..Len(kept) :
                    /\ result.data_x[i].rep = kept[i].rep
                    /\ result.data_y[i].rep = kept[i].rep
                    /\ result.data_x[i].v * 10 = Tenmillionths(kept[i].row[call.args[1]])
                    /\ result.data_y[i].v * 1000 = Tenmillionths(kept[i].row[call.args[2]])
                    /\ result.data_x[i].v > 0

(***************************************************************************)
(* C15. Every dose_response call terminates: curve_fit makes at most       *)
(* 10,000 model evaluations, and a fit that has not converged within them  *)
(* fails with CurveFitFailed; it returns a result only when it converged.  *)
(***************************************************************************)
\* the call passed its checks and went into curve_fit
FitEntered == result.kind \notin {"InvalidColumn", "InsufficientData", "InsufficientPositive"}

C15_FitTerminates ==
    /\ [](nfev <= MaxFev)
    /\ <>(pc = "returned")
    /\ []((pc = "returned" /\ FitEntered)
            => IF call.env.needed <= MaxFev
               THEN result.ok /\ nfev = call.env.needed
               ELSE ~result.ok /\ result.kind = "CurveFitFailed" /\ nfev = MaxFev)

\* the budget is used up and the call has failed
C15_Witness ==
    /\ pc = "returned"
    /\ call.fn = "dose_response"
    /\ nfev = MaxFev
    /\ call.env.needed > MaxFev
    /\ result.kind = "CurveFitFailed"

(***************************************************************************)
(* C16. In the correlation interpretation the strength word is the band of *)
(* |Pearson r| (very strong from 0.9, strong from 0.7, moderate from 0.5,  *)
(* weak from 0.3, negligible below), and the direction word is 'positive'  *)
(* exactly when r > 0 and 'negative' exactly when r < 0.                   *)
(***************************************************************************)
\* pearsonr's r before it is rounded, in units of 1e-5: nan on a constant column
PearsonOfCall == IF result.pearson.r.t = "fin" THEN call.env.r ELSE result.pearson.r

\* r is a number and lo <= |r| < hi, in units of 1e-5
InBand(r, lo, hi) ==
    /\ r.t = "fin"
    /\ \/ lo <= r.v /\ r.v < hi
       \/ lo <= 0 - r.v /\ 0 - r.v < hi

C16_StrengthAndDirection ==
    (Returned("correlation") /\ result.ok)
    => LET r == PearsonOfCall
           word == result.interpretation.strength
       IN  /\ word = "very strong" <=> InBand(r, 90000, 100001)
           /\ word = "strong" <=> InBand(r, 70000, 90000)
           /\ word = "moderate" <=> InBand(r, 50000, 70000)
           /\ word = "weak" <=> InBand(r, 30000, 50000)
           /\ word = "negligible" <=> InBand(r, 0, 30000)
           /\ result.interpretation.direction = "positive" <=> (r.t = "fin" /\ r.v > 0)
           /\ result.interpretation.direction = "negative" <=> (r.t = "fin" /\ r.v < 0)

(***************************************************************************)
(* C17. With a group column that is in the table, kaplan_meier's groups    *)
(* block has one entry for exactly the distinct non-missing group values   *)
(* that have at least 3 records with numeric time and event, each entry    *)
(* being the estimator on that group's records only; without a group       *)
(* column in the table the result is the whole-population curve.           *)
(***************************************************************************)
\* the median of a curve: the time of its first point at or below 0.5
MedianOfCurve(curve) ==
    LET hits == {i \in 1..Len(curve) : curve[i].survival <= 5000}
    IN  IF hits = {} THEN None
        ELSE Fin(curve[CHOOSE i \in hits : \A j \in hits : i <= j].time)

\* the valid records of the group value g
GroupRows(g) ==
    {i \in ValidRows(data, call.args[1], call.args[2]) : data[i].row[call.args[3]] = g}

\* the group values with at least 3 valid records
LargeGroups ==
    {g \in RawLabels(data, call.args[3]) : Weight(data, GroupRows(g)) >= 3}

\* the entry the estimator gives on the records I
IsEstimateOf(e, I) ==
    /\ e.curve = ReferenceCurve(data, I, call.args[1], call.args[2])
    /\ e.median_survival = MedianOfCurve(e.curve)
    /\ e.n = Weight(data, I)

C17_OneCurvePerGroup ==
    KmReturned =>
        IF Len(call.args) = 3 /\ HasColumn(call.args[3])
        THEN /\ result.grouped
             /\ Len(result.groups) = Cardinality(LargeGroups)
             /\ \A g \in LargeGroups :
                    \E k \in 1..Len(result.groups) : IsEstimateOf(result.groups[k], GroupRows(g))
        ELSE /\ ~result.grouped
             /\ IsEstimateOf(result, ValidRows(data, call.args[1], call.args[2]))

C19_UploadCreatesSession ==
    (call.fn = "upload_csv" /\ result.ok) =>
        /\ "session_id" \in DOMAIN result
        /\ \E id \in DOMAIN store :
            /\ json_loads(store[id].raw) = result.data
            /\ store[id].expires = call.at + SESSION_TTL

(***************************************************************************)
(* C20: get_session(s) returns the dataset given to the create_session call *)
(* that produced s while less than SESSION_TTL = 7200 seconds have passed   *)
(* since that call and s has not been deleted; it returns None once more    *)
(* than SESSION_TTL seconds have passed, after a delete, and for an id no   *)
(* create_session call produced, however many reads came before.  A         *)
(* request whose lookup gives None answers 404 and runs no analysis; a      *)
(* request whose lookup gives a dataset answers with the analysis of it.    *)
(* (In the second in which the lifetime ends a read falls on either side.)  *)
(***************************************************************************)
\* the session id of the last call
AskedId == IF call.fn = "get_session" THEN call.args[1] ELSE call.session_id

Created(id) == id \in 1..Len(issued)

Alive(id) ==
    Created(id) /\ ~issued[id].deleted /\ call.at - issued[id].at < SESSION_TTL

Gone(id) ==
    ~Created(id) \/ issued[id].deleted \/ call.at - issued[id].at > SESSION_TTL

C20_SessionLifetime ==
    /\ call.fn = "get_session" =>
        /\ Alive(AskedId) =>
              result = [ok |-> TRUE, kind |-> "ok", data |-> issued[AskedId].data]
        /\ Gone(AskedId) => result = [ok |-> FALSE, kind |-> "None", data |-> <<>>]
    /\ call.fn \in Functions /\ "session_id" \in DOMAIN call =>
        /\ Alive(AskedId) =>
              result = Run(call.fn, issued[AskedId].data, call.args, call.env)
        /\ Gone(AskedId) => result = [ok |-> FALSE, kind |-> "NotFound"]
        /\ result.kind = "NotFound" \/
              (Created(AskedId) /\
               result = Run(call.fn, issued[AskedId].data, call.args, call.env))
    /\ call.fn = "suggest_tests" =>
        /\ Alive(AskedId) => result.ok
        /\ Gone(AskedId) => result = [ok |-> FALSE, kind |-> "NotFound"]

\* a read of a session made a lifetime and a second ago, and never deleted,
\* finds nothing
C20_Witness ==
    /\ call.fn = "get_session"
    /\ Created(AskedId)
    /\ issued[AskedId].data # <<>>
    /\ ~issued[AskedId].deleted
    /\ call.at - issued[AskedId].at = SESSION_TTL + 1
    /\ ~result.ok


(***************************************************************************)
(* C21: in every two_group_comparison result the p-value cited in the      *)
(* interpretation is the display form of the recommended test's p-value:   *)
(* "<0.0001" exactly when that p-value is below 0.0001, the p-value        *)
(* rounded to 4 decimals otherwise, as format_p gives for that p-value.    *)
(***************************************************************************)
\* the p-value scipy gave for the test the result recommends
RecommendedP ==
    IF result.recommended_test = "t-test"
    THEN (IF result.t_test.statistic.t = "nan" THEN NaN ELSE call.env.t_p)
    ELSE call.env.u_p

C21_InterpretationCitesDisplayP ==
    (pc = "returned" /\ call.fn = "two_group_comparison" /\ result.ok) =>
        /\ result.interpretation.p.lt <=> LessThan(RecommendedP, TinyP5)
        /\ ~result.interpretation.p.lt =>
              result.interpretation.p.shown = RoundP(RecommendedP)
        /\ result.interpretation.p = format_p(RecommendedP)


(***************************************************************************)
(* C22: suggest_tests returns exactly one Kaplan-Meier suggestion, enabled *)
(* exactly when the table has a described column whose numeric values are  *)
(* all 0 or 1 with at least one 1 and a described column whose numeric     *)
(* values are all >= 0 with a maximum above 1; other columns (text, flags  *)
(* of zeros) do not disable it.                                            *)
(***************************************************************************)
\* the described columns that the table has
DescribedColumns ==
    {shown.columns[i].name : i \in 1..Len(shown.columns)} \cap Columns(data)

\* the numbers among the values of a column
NumericValues(c) ==
    {to_numeric(data[i].row[c]).v : i \in {j \in 1..Len(data) : IsFinite(to_numeric(data[j].row[c]))}}

EventColumnWithEvents(c) == NumericValues(c) \subseteq {0, 1} /\ 1 \in NumericValues(c)

TimeColumn(c) ==
    /\ \A v \in NumericValues(c) : v >= 0
    /\ \E v \in NumericValues(c) : v > 1

C22_KaplanMeierEnabled ==
    pc = "suggested" =>
        LET km == Suggested(shown.suggestions, KaplanMeierTest)
        IN  /\ Len(km) = 1
            /\ ~km[1].disabled <=>
                  /\ \E c \in DescribedColumns : EventColumnWithEvents(c)
                  /\ \E c \in DescribedColumns : TimeColumn(c)


(***************************************************************************)
(* C23: when suggest_tests returns the two-group suggestion (the One-Way   *)
(* ANOVA suggestion) enabled for the group column c, two_group_comparison  *)
(* (one_way_anova) on the same table with group column c and a fully       *)
(* numeric value column does not fail with InvalidGroupCount,              *)
(* InsufficientData or TooFewValidGroups.                                  *)
(***************************************************************************)
\* the list has the test enabled for the group column c
EnabledFor(test, c) ==
    \E i \in 1..Len(shown.suggestions) :
        /\ shown.suggestions[i].test = test
        /\ ~shown.suggestions[i].disabled
        /\ shown.suggestions[i].group = c

SuggestedRun(fn, test) ==
    /\ pc = "returned"
    /\ call.fn = fn
    /\ EnabledFor(test, call.args[1])
    /\ call.args[2] \in Columns(data)
    /\ FullyNumeric(data, call.args[2])

C23_EnabledSuggestionRuns ==
    (SuggestedRun("two_group_comparison", TwoGroupTest)
        \/ SuggestedRun("one_way_anova", AnovaTest)) =>
        result.kind \notin {"InvalidGroupCount", "InsufficientData", "TooFewValidGroups"}


(***************************************************************************)
(* C24: when the chi-square suggestion carries the warning that Fisher's   *)
(* exact test will be used instead, chi_square run on the first two        *)
(* categorical columns of the same table returns a fisher block.           *)
(***************************************************************************)
FisherAnnounced ==
    \E i \in 1..Len(shown.suggestions) :
        /\ shown.suggestions[i].test = ChiSquareTest
        /\ shown.suggestions[i].warning = "Fisher's exact test will be used instead"

C24_FisherAsAnnounced ==
    (pc = "returned" /\ call.fn = "chi_square" /\ FisherAnnounced) =>
        result.ok /\ result.fisher.present


(***************************************************************************)
(* C25: in an ungrouped kaplan_meier result the interpretation says the    *)
(* median survival time is not reached exactly when median_survival is     *)
(* null, and cites median_survival whenever it is a number, a median at    *)
(* time 0 included.                                                        *)
(***************************************************************************)
C25_InterpretationCitesMedian ==
    (pc = "returned" /\ call.fn = "kaplan_meier" /\ result.ok /\ ~result.grouped) =>
        /\ result.interpretation.median = None <=> result.median_survival = None
        /\ result.median_survival.t = "fin" =>
              result.interpretation.median = result.median_survival

====
